---- MODULE Spec2Model ----
(***************************************************************************)
(* Verification model of the llm-rpg orchestration core:                   *)
(*   - the LLM Gateway (OllamaClient: generate / generateJSON, retries),   *)
(*   - the Decision / Judgement layer (AgentAI, EventJudge,                *)
(*     EventGenerator) with its try/catch fallbacks,                       *)
(*   - the event resolution flow of GamePlayScene,                         *)
(*   - the combat turn loop of CombatSystem.                               *)
(*                                                                         *)
(* JavaScript values are tagged records: [t |-> "str", s |-> ...],         *)
(* [t |-> "num", n |-> ...], [t |-> "obj", f |-> <record of fields>] ...   *)
(* hp, damage and heal amounts are kept in HALF points (200 = 100 hp),     *)
(* because a special attack deals attack * 1.5 damage.                     *)
(***************************************************************************)
EXTENDS Integers, Sequences, FiniteSets, TLC

(***************************************************************************)
(* Bounds of the model                                                     *)
(***************************************************************************)
\* options.maxRetries ranges over 0 (option absent) .. MaxRetriesOpt
MaxRetriesOpt == 3
\* runCombat is followed for at most MaxTurns turns
MaxTurns == 3
\* the scene is followed for at most MaxEvents events
MaxEvents == 2
\* and at most MaxSubmits submitted doctrines
MaxSubmits == 1
\* direct calls made on one Agent / Enemy
MaxCalls == 3
\* getRandomTemplate calls made on one EventTemplateSelector
MaxPicks == 6
\* getRandomTemplate calls made for one and the same pool
MaxRepeats == 7
\* characters typed into one agent name field
MaxNameLen == 2
\* getWeightedDifficulty is called with eventCount in 0..MaxEventCount
MaxEventCount == 8

(***************************************************************************)
(* Program constants                                                       *)
(***************************************************************************)
DefaultMaxRetries == 3
BackoffBaseMs == 1000

VARIABLES
  \* ---- LLM Gateway (OllamaClient) ----
  maxRetriesOpt,\* options.maxRetries handed to the constructor (0: absent)
  provider,     \* "ollama" | "groq"
  apiKey,       \* TRUE iff an API key is configured (this.apiKey is truthy)
  maxRetries,   \* this.maxRetries
  gwPc,         \* position of the generateJSON call
  attempt,      \* loop variable of the retry loop
  fetchLog,     \* outcome of every backend request answered so far, in order:
                \* a failure kind, or the text of a successful answer
  inFlight,     \* number of backend requests of this call currently in flight
  waits,        \* backoff delays (ms) waited so far, in order
  lastError,    \* lastError?.message
  genResult,    \* settled promise of generate()
  jsonResult,   \* settled promise of generateJSON()
  \* ---- Decision layer call made on top of the Gateway call ----
  entry,        \* the entry point that issued the Gateway call
  epArgs,       \* its arguments
  epResult,     \* its settled promise
  \* ---- Environment ----
  llmDown,      \* TRUE: every Gateway call of this run fails
  stubRandom,   \* TRUE: Math.random() is stubbed to return 0
  \* ---- GameState members CombatSystem and GamePlayScene leave alone ----
  combatsWon,   \* gameState.combatsWon
  instance,     \* GameState.instance: 0 while undefined, else the id of the object
  \* ---- Stat model ----
  agents,       \* the roster: sequence of Agent records
  \* ---- CombatSystem ----
  enemies,      \* this.enemies: sequence of Enemy records
  cbPc,         \* position of runCombat
  turn,         \* number of turns started
  startedAlive, \* a living agent and a living enemy existed at the call
  aliveAgents,  \* agentPhase / enemyPhase: indices of the agents alive at phase start
  pending,      \* indices of agents whose decideCombatAction has not settled
  actions,      \* Map name -> CombatAction built by batchCombatActions
  idx,          \* position of the for loop of the running phase
  cur,          \* the attack / special awaiting its judgement
  aliveEnemies, \* agentPhase: indices of the enemies listed in enemyInfo;
                \* enemyPhase: indices of the enemies alive at phase start
  agentTargets, \* enemyPhase: hp of the living agents at phase start
  lastTurn,     \* the entry pushed last on turnLog
  agentActionCount, \* agent entries pushed on turnLog
  enemyActionCount, \* enemy entries pushed on turnLog
  cbResult,     \* settled promise of runCombat
  \* ---- GamePlayScene, GameState, ChatInput, EventGenerator ----
  tasks,        \* the async calls of the scene that are suspended at an await
  timers,       \* pending delayedCall timers that will call startNextEvent
  callbackSet,  \* chatInput.onSubmit has registered the scene's callback
  inputEnabled, \* chatInput.enabled
  doctrine,     \* gameState.doctrine
  currentEvent, \* this.currentEvent
  eventCount,   \* gameState.eventCount
  eventsCleared,\* gameState.eventsCleared
  usedTemplates,\* templateSelector.usedTemplates
  eventHistory, \* eventGenerator.eventHistory
  gameOverShown,\* gameOver() has run to its end
  promptedFor,  \* highest event number whose doctrine prompt was shown
  submits,      \* doctrines submitted so far
  \* ---- Direct calls on one Agent / Enemy / EventTemplateSelector ----
  lastCall,     \* the method called last: its name, arguments, return value
  calls,        \* number of direct calls made
  picks         \* ids getRandomTemplate has returned so far, in order

gwVars == <<maxRetriesOpt, provider, apiKey, maxRetries, gwPc, attempt, fetchLog, inFlight,
            waits, lastError, genResult, jsonResult>>
epVars == <<entry, epArgs, epResult>>
envVars == <<llmDown, stubRandom, combatsWon, instance>>
cbVars == <<enemies, cbPc, turn, startedAlive, aliveAgents, pending, actions, idx,
            cur, aliveEnemies, agentTargets, lastTurn, agentActionCount,
            enemyActionCount, cbResult>>
evVars == <<tasks, timers, callbackSet, inputEnabled, doctrine, currentEvent, eventCount,
            eventsCleared, usedTemplates, eventHistory, gameOverShown, promptedFor,
            submits>>
callVars == <<lastCall, calls, picks>>
vars == <<gwVars, epVars, envVars, agents, cbVars, evVars, callVars>>

\* What the Gateway / Decision-layer steps, the CombatSystem steps and the
\* scene steps leave alone.
gwFrame == <<envVars, agents, cbVars, evVars, callVars>>
cbFrame == <<gwVars, epVars, envVars, evVars, callVars>>
evFrame == <<gwVars, epVars, envVars, cbVars, callVars>>

(***************************************************************************)
(* JavaScript values                                                       *)
(***************************************************************************)
JNull == [t |-> "null"]
JUndefined == [t |-> "undefined"]
JStr(s) == [t |-> "str", s |-> s]
JNum(n) == [t |-> "num", n |-> n]
JBool(b) == [t |-> "bool", b |-> b]
JObj(f) == [t |-> "obj", f |-> f]
JArr(a) == [t |-> "arr", a |-> a]

\* A promise that has not settled, has resolved with a value, has rejected.
Pending == [state |-> "pending"]
Resolved(v) == [state |-> "resolved", value |-> v]
Rejected(e) == [state |-> "rejected", error |-> e]

\* Outcome of a synchronous block: it returned a value or threw.
Returned(v) == [thrown |-> FALSE, value |-> v]
Thrown(e) == [thrown |-> TRUE, error |-> e]

\* Property read `v.name`: throws a TypeError on null / undefined, yields
\* undefined when the property is absent.
CanRead(v) == v.t \notin {"null", "undefined"}
Field(v, name) ==
  IF v.t = "obj" /\ name \in DOMAIN v.f THEN v.f[name] ELSE JUndefined

\* JavaScript truthiness of a value.
Truthy(v) ==
  CASE v.t = "null" -> FALSE
    [] v.t = "undefined" -> FALSE
    [] v.t = "bool" -> v.b
    [] v.t = "num" -> v.n # 0
    [] v.t = "str" -> v.s # ""
    [] OTHER -> TRUE   \* objects, arrays, non-empty template strings

(***************************************************************************)
(* Backend behaviour: what one fetch can do                                *)
(***************************************************************************)
\* fetch rejects (network), the abort timer fires (timeout), the status is
\* not 2xx (http), the body of a 2xx answer cannot be read as the expected
\* envelope (body: response.json() rejects, data.choices[0] is missing).
FailureKinds == {"network", "timeout", "http"}

ErrMessage(kind) ==
  CASE kind = "network" -> "Failed to fetch"
    [] kind = "timeout" -> "The operation was aborted"
    [] kind = "http" -> "API error: 500"

\* Math.random() in hundredths: r stands for the number r / 100 in [0, 1).
RandomRolls == {0, 30, 31, 99}

\* Math.floor(Math.random() * n)
FloorRandom(r, n) == (r * n) \div 100

\* Texts a backend can answer with (data.response / message.content).
\* Single quotes stand for the double quotes of JSON.
RawTexts ==
  { "I attack the goblin!",
    "",
    "null",
    "42",
    "{}",
    "{'action':'attack','target':1,'reasoning':'r'}",
    "{'action':'defend','target':0,'reasoning':'r'}",
    "{'action':'heal','target':'self','reasoning':'r'}",
    "{'action':'special','target':0,'reasoning':'r'}",
    "{'action':'flee','target':0,'reasoning':'r'}",
    "{'action':'Attack','target':0}",
    "{'summary':'s','results':[]}",
    "{'summary':'s','results':[{'name':'A','outcome':'bad','statChange':{'hp':-3,'mind':1},'trauma':'x','feedback':'f'}]}",
    "{'summary':'s','results':[{'name':'A','outcome':'bad','statChange':{'hp':-200},'feedback':'f'},{'name':'B','outcome':'bad','statChange':{'hp':-200},'feedback':'f'}]}",
    "{'summary':'s','results':[{'name':'Z','outcome':'good','feedback':'f'}]}",
    "{'summary':'s','results':[{'name':'A','outcome':'bad','statChange':{'hp':'x'},'feedback':'f'}]}",
    "{'success':true,'damage':4,'narrative':'n'}",
    "{'success':false,'damage':0,'narrative':'n'}",
    "{'success':true,'damage':-20,'narrative':'n'}",
    "{'description':'d','challenge':'c'}",
    "{'personality':'p','flaw':'f','signatureSkill':'k'}" }

\* JSON.parse on those texts: a value, or a SyntaxError.
JSONParse(text) ==
  CASE text = "null" -> Returned(JNull)
    [] text = "42" -> Returned(JNum(42))
    [] text = "{}" -> Returned(JObj(<<>>))
    [] text = "{'action':'attack','target':1,'reasoning':'r'}" ->
         Returned(JObj([action |-> JStr("attack"), target |-> JNum(1),
                        reasoning |-> JStr("r")]))
    [] text = "{'action':'defend','target':0,'reasoning':'r'}" ->
         Returned(JObj([action |-> JStr("defend"), target |-> JNum(0),
                        reasoning |-> JStr("r")]))
    [] text = "{'action':'heal','target':'self','reasoning':'r'}" ->
         Returned(JObj([action |-> JStr("heal"), target |-> JStr("self"),
                        reasoning |-> JStr("r")]))
    [] text = "{'action':'special','target':0,'reasoning':'r'}" ->
         Returned(JObj([action |-> JStr("special"), target |-> JNum(0),
                        reasoning |-> JStr("r")]))
    [] text = "{'action':'flee','target':0,'reasoning':'r'}" ->
         Returned(JObj([action |-> JStr("flee"), target |-> JNum(0),
                        reasoning |-> JStr("r")]))
    [] text = "{'action':'Attack','target':0}" ->
         Returned(JObj([action |-> JStr("Attack"), target |-> JNum(0)]))
    [] text = "{'summary':'s','results':[]}" ->
         Returned(JObj([summary |-> JStr("s"), results |-> JArr(<<>>)]))
    [] text = "{'summary':'s','results':[{'name':'A','outcome':'bad','statChange':{'hp':-3,'mind':1},'trauma':'x','feedback':'f'}]}" ->
         Returned(JObj([summary |-> JStr("s"),
                        results |-> JArr(<<
                          JObj([name |-> JStr("A"), outcome |-> JStr("bad"),
                                statChange |-> JObj([hp |-> JNum(-3),
                                                     mind |-> JNum(1)]),
                                trauma |-> JStr("x"),
                                feedback |-> JStr("f")]) >>)]))
    [] text = "{'summary':'s','results':[{'name':'A','outcome':'bad','statChange':{'hp':-200},'feedback':'f'},{'name':'B','outcome':'bad','statChange':{'hp':-200},'feedback':'f'}]}" ->
         Returned(JObj([summary |-> JStr("s"),
                        results |-> JArr(<<
                          JObj([name |-> JStr("A"), outcome |-> JStr("bad"),
                                statChange |-> JObj([hp |-> JNum(-200)]),
                                feedback |-> JStr("f")]),
                          JObj([name |-> JStr("B"), outcome |-> JStr("bad"),
                                statChange |-> JObj([hp |-> JNum(-200)]),
                                feedback |-> JStr("f")]) >>)]))
    [] text = "{'summary':'s','results':[{'name':'Z','outcome':'good','feedback':'f'}]}" ->
         Returned(JObj([summary |-> JStr("s"),
                        results |-> JArr(<<
                          JObj([name |-> JStr("Z"), outcome |-> JStr("good"),
                                feedback |-> JStr("f")]) >>)]))
    [] text = "{'summary':'s','results':[{'name':'A','outcome':'bad','statChange':{'hp':'x'},'feedback':'f'}]}" ->
         Returned(JObj([summary |-> JStr("s"),
                        results |-> JArr(<<
                          JObj([name |-> JStr("A"), outcome |-> JStr("bad"),
                                statChange |-> JObj([hp |-> JStr("x")]),
                                feedback |-> JStr("f")]) >>)]))
    [] text = "{'success':true,'damage':4,'narrative':'n'}" ->
         Returned(JObj([success |-> JBool(TRUE), damage |-> JNum(4),
                        narrative |-> JStr("n")]))
    [] text = "{'success':false,'damage':0,'narrative':'n'}" ->
         Returned(JObj([success |-> JBool(FALSE), damage |-> JNum(0),
                        narrative |-> JStr("n")]))
    [] text = "{'success':true,'damage':-20,'narrative':'n'}" ->
         Returned(JObj([success |-> JBool(TRUE), damage |-> JNum(-20),
                        narrative |-> JStr("n")]))
    [] text = "{'description':'d','challenge':'c'}" ->
         Returned(JObj([description |-> JStr("d"), challenge |-> JStr("c")]))
    [] text = "{'personality':'p','flaw':'f','signatureSkill':'k'}" ->
         Returned(JObj([personality |-> JStr("p"), flaw |-> JStr("f"),
                        signatureSkill |-> JStr("k")]))
    [] OTHER -> Thrown([name |-> "SyntaxError", text |-> "Unexpected token"])

(***************************************************************************)
(* OllamaClient                                                            *)
(***************************************************************************)
\* constructor: this.maxRetries = options.maxRetries || 3  (0 = absent)
ConstructorMaxRetries(opt) == IF opt # 0 THEN opt ELSE DefaultMaxRetries

\* Variant: generateGroq goes on without a key.
NeedsApiKeyNever(prov, key) == FALSE

\* generateGroq: if (!this.apiKey) throw ...   (before any request)
NeedsApiKey(prov, key) == prov = "groq" /\ ~key

\* Variant: the loop stops one attempt early.
MoreAttemptsOneLess(att, max) == att < max - 1

\* for (...; attempt < this.maxRetries; ...)
MoreAttempts(att, max) == att < max

\* Variant: a wait follows every failed attempt, the last one included.
ShouldBackoffAlways(att, max) == att < max

\* if (attempt < this.maxRetries - 1) await <backoff>
ShouldBackoff(att, max) == att < max - 1

\* 1000 * Math.pow(2, attempt)
BackoffDelay(att) == BackoffBaseMs * 2 ^ att

\* throw new Error(`... request failed after ${maxRetries} attempts: ${lastError?.message}`)
ExhaustedError(prov, max, last) ==
  [name |-> "Error", text |-> "request failed after attempts",
   provider |-> prov, attempts |-> max, cause |-> last]

MissingKeyError == [name |-> "Error", text |-> "API key required for Groq provider"]
InvalidJSONError == [name |-> "Error", text |-> "Invalid JSON response from Ollama"]
TypeError == [name |-> "TypeError", text |-> "Cannot read properties of null"]

\* Variant: malformed JSON is repaired into an empty object.
ParseResponseRepairs(text) ==
  LET p == JSONParse(text)
  IN  IF p.thrown THEN Resolved(JObj([x \in {} |-> JNull])) ELSE Resolved(p.value)

\* generateJSON: try { return JSON.parse(response) } catch { throw new Error(...) }
ParseResponse(text) ==
  LET p == JSONParse(text)
  IN  IF p.thrown THEN Rejected(InvalidJSONError) ELSE Resolved(p.value)

\* Entering the loop (or re-entering it with the next value of attempt):
\* either one more request is issued or the loop is left and the call throws.
LoopHead(att, flying) ==
  IF MoreAttempts(att, maxRetries)
  THEN /\ gwPc' = "fetch"
       /\ inFlight' = flying + 1
       /\ genResult' = genResult
  ELSE /\ gwPc' = "generated"
       /\ inFlight' = flying
       /\ genResult' = Rejected(ExhaustedError(provider, maxRetries, lastError'))

\* generateJSON(prompt) -> generate(prompt, "json") -> generateOllama / generateGroq
Generate ==
  /\ gwPc = "idle"
  /\ attempt' = 0
  /\ IF NeedsApiKey(provider, apiKey)
     THEN /\ gwPc' = "generated"
          /\ genResult' = Rejected(MissingKeyError)
          /\ inFlight' = inFlight
          /\ lastError' = lastError
     ELSE /\ lastError' = lastError
          /\ LoopHead(0, inFlight)
  /\ UNCHANGED <<maxRetriesOpt, provider, apiKey, maxRetries, fetchLog, waits, jsonResult>>
  /\ UNCHANGED <<epVars, gwFrame>>

\* The request of this attempt fails: catch block of the loop.
FetchFails ==
  /\ gwPc = "fetch"
  /\ \E kind \in FailureKinds :
       /\ fetchLog' = Append(fetchLog, kind)
       /\ lastError' = ErrMessage(kind)
  /\ IF ShouldBackoff(attempt, maxRetries)
     THEN /\ gwPc' = "backoff"
          /\ inFlight' = inFlight - 1
          /\ waits' = Append(waits, BackoffDelay(attempt))
          /\ attempt' = attempt
          /\ genResult' = genResult
     ELSE /\ waits' = waits
          /\ attempt' = attempt + 1
          /\ LoopHead(attempt + 1, inFlight - 1)
  /\ UNCHANGED <<maxRetriesOpt, provider, apiKey, maxRetries, jsonResult>>
  /\ UNCHANGED <<epVars, gwFrame>>

\* The backoff timer fires: attempt++ and back to the loop head.
BackoffElapsed ==
  /\ gwPc = "backoff"
  /\ attempt' = attempt + 1
  /\ lastError' = lastError
  /\ LoopHead(attempt + 1, inFlight)
  /\ UNCHANGED <<maxRetriesOpt, provider, apiKey, maxRetries, fetchLog, waits, jsonResult>>
  /\ UNCHANGED <<epVars, gwFrame>>

\* The request of this attempt is answered 2xx with a readable envelope:
\* return data.response / data.choices[0].message.content
FetchSucceeds ==
  /\ gwPc = "fetch"
  /\ \E text \in RawTexts :
       /\ fetchLog' = Append(fetchLog, text)
       /\ genResult' = Resolved(text)
  /\ inFlight' = inFlight - 1
  /\ gwPc' = "generated"
  /\ UNCHANGED <<maxRetriesOpt, provider, apiKey, maxRetries, attempt, waits, lastError, jsonResult>>
  /\ UNCHANGED <<epVars, gwFrame>>

\* generateJSON continues after `await this.generate(prompt, "json")`.
GenerateJSONReturns ==
  /\ gwPc = "generated"
  /\ jsonResult' = IF genResult.state = "rejected"
                   THEN genResult
                   ELSE ParseResponse(genResult.value)
  /\ gwPc' = "settled"
  /\ UNCHANGED <<maxRetriesOpt, provider, apiKey, maxRetries, attempt, fetchLog, inFlight,
                 waits, lastError, genResult>>
  /\ UNCHANGED <<epVars, gwFrame>>

(***************************************************************************)
(* Decision / Judgement layer: AgentAI, EventJudge, EventGenerator         *)
(* Every entry point is `async f() { try { ... } catch { fallback } }`.    *)
(* r is the settled promise of the generateJSON call it awaits.            *)
(***************************************************************************)
\* A template literal `${name} ...` : the interpolated name and the fixed text.
JTpl(name, text) == [t |-> "tstr", name |-> name, text |-> text]

\* An async function resolves with what its body returns, rejects with what
\* it throws.
Async(outcome) ==
  IF outcome.thrown THEN Rejected(outcome.error) ELSE Resolved(outcome.value)

\* `await p` inside a try block.
Await(r) == IF r.state = "rejected" THEN Thrown(r.error) ELSE Returned(r.value)

\* ---- AgentAI.generatePersonality ----
GeneratePersonalityCatch(name, error) ==
  Returned(JObj([personality |->
                   JTpl(name, " is a cautious adventurer with a strong sense of duty."),
                 flaw |-> JStr("Tends to overthink situations"),
                 signatureSkill |-> JStr("Quick thinking in crisis")]))

GeneratePersonality(name, r) ==
  LET body == Await(r)
  IN  Async(IF body.thrown THEN GeneratePersonalityCatch(name, body.error) ELSE body)

\* ---- AgentAI.decideEventAction ----
\* Variant: the catch block rethrows.
DecideEventActionRethrows(name, error) == Thrown(error)

DecideEventActionCatch(name, error) ==
  Returned(JObj([action |->
                   JTpl(name, " carefully assesses the situation and proceeds with caution."),
                 reasoning |-> JStr("Playing it safe due to uncertainty.")]))

DecideEventAction(name, r) ==
  LET body == Await(r)
  IN  Async(IF body.thrown THEN DecideEventActionCatch(name, body.error) ELSE body)

\* ---- AgentAI.decideCombatAction ----
\* ["attack", "defend", "heal", "special"].includes(response.action)
KnownVerbs == {"attack", "defend", "heal", "special"}
\* Variant: any string passes for a verb.
IsKnownVerbAnyString(v) == v.t = "str"

IsKnownVerb(v) == v.t = "str" /\ v.s \in KnownVerbs

DecideCombatActionTry(r) ==
  LET response == Await(r)
  IN  IF response.thrown THEN response
      ELSE IF ~CanRead(response.value) THEN Thrown(TypeError)
      ELSE IF ~IsKnownVerb(Field(response.value, "action"))
           THEN Thrown([name |-> "Error", text |-> "Invalid action type"])
      ELSE response

\* Variant: the catch block rethrows.
DecideCombatActionRethrows(error) == Thrown(error)

DecideCombatActionCatch(error) ==
  Returned(JObj([action |-> JStr("attack"), target |-> JNum(0),
                 reasoning |-> JStr("Defaulting to a basic attack.")]))

DecideCombatAction(r) ==
  LET body == DecideCombatActionTry(r)
  IN  Async(IF body.thrown THEN DecideCombatActionCatch(body.error) ELSE body)

\* ---- EventJudge.judgeEvent ----
\* `x.length === 0`
LengthIsZero(v) ==
  CASE v.t = "arr" -> Len(v.a) = 0
    [] v.t = "str" -> v.s = ""
    [] OTHER -> FALSE

\* if (!response.results || response.results.length === 0) throw ...
InvalidJudgement(response) ==
  \/ ~Truthy(Field(response, "results"))
  \/ LengthIsZero(Field(response, "results"))

JudgeEventTry(r) ==
  LET response == Await(r)
  IN  IF response.thrown THEN response
      ELSE IF ~CanRead(response.value) THEN Thrown(TypeError)
      ELSE IF InvalidJudgement(response.value)
           THEN Thrown([name |-> "Error", text |-> "Invalid judgement response"])
      ELSE response

\* Variant: the fallback result costs hp.
NeutralResultWithPenalty(action) ==
  JObj([name |-> action.name, outcome |-> JStr("neutral"),
        statChange |-> JObj([hp |-> JNum(-5), attack |-> JNum(0), mind |-> JNum(0)]),
        feedback |-> JStr("Your action was reasonable.")])

\* agentActions.map(action => ({ name: action.name, outcome: 'neutral', ... }))
NeutralResult(action) ==
  JObj([name |-> action.name, outcome |-> JStr("neutral"),
        statChange |-> JObj([hp |-> JNum(0), attack |-> JNum(0), mind |-> JNum(0)]),
        feedback |-> JStr("Your action was reasonable.")])

JudgeEventCatch(agentActions, error) ==
  Returned(JObj([summary |-> JStr("The party handled the situation adequately."),
                 results |-> JArr([i \in 1..Len(agentActions) |->
                                     NeutralResult(agentActions[i])])]))

JudgeEvent(agentActions, r) ==
  LET body == JudgeEventTry(r)
  IN  Async(IF body.thrown THEN JudgeEventCatch(agentActions, body.error) ELSE body)

\* ---- EventJudge.judgeCombatAction ----
\* Variant: the fallback judgement always succeeds.
FallbackAlwaysSucceeds(roll) == roll >= 0

\* const success = Math.random() > 0.3
FallbackSuccess(roll) == roll > 30

\* Variant: the damage roll spans twenty values.
FallbackDamageWide(success, roll) == IF success THEN 10 + FloorRandom(roll, 20) ELSE 0

\* damage: success ? 10 + Math.floor(Math.random() * 10) : 0
FallbackDamage(success, roll) == IF success THEN 10 + FloorRandom(roll, 10) ELSE 0

JudgeCombatActionCatch(agentName, action, roll1, roll2, error) ==
  LET success == FallbackSuccess(roll1)
  IN  Returned(JObj([success |-> JBool(success),
                     damage |-> JNum(FallbackDamage(success, roll2)),
                     narrative |-> JTpl(agentName,
                                        IF success THEN " connects!" ELSE " misses!")]))

JudgeCombatAction(agentName, action, roll1, roll2, r) ==
  LET body == Await(r)
  IN  Async(IF body.thrown
            THEN JudgeCombatActionCatch(agentName, action, roll1, roll2, body.error)
            ELSE body)

\* ---- EventGenerator.generateEvent (after the template was selected) ----
\* PromptBuilder.eventGeneration reads a.personality.slice(0, 50) of every
\* party member: a TypeError when a personality is undefined.
GenerateEventTry(personalities, r) ==
  IF \E i \in 1..Len(personalities) : ~CanRead(personalities[i])
  THEN Thrown(TypeError)
  ELSE LET response == Await(r)
       IN  IF response.thrown THEN response
           ELSE IF ~CanRead(response.value) THEN Thrown(TypeError)
           ELSE Returned(JObj([type |-> JStr("normal"),
                               description |-> Field(response.value, "description"),
                               challenge |-> Field(response.value, "challenge")]))

GenerateEventCatch(template, error) ==
  Returned(JObj([type |-> JStr("normal"),
                 description |-> JStr(template),
                 challenge |-> JStr("You must decide how to proceed carefully.")]))

GenerateEventBody(template, personalities, r) ==
  LET body == GenerateEventTry(personalities, r)
  IN  Async(IF body.thrown THEN GenerateEventCatch(template, body.error) ELSE body)


(***************************************************************************)
(* EventTemplates: EVENT_TEMPLATES and EventTemplateSelector               *)
(***************************************************************************)
Tpl(id, type, difficulty) == [id |-> id, type |-> type, difficulty |-> difficulty]

\* in the order of the array
EVENT_TEMPLATES ==
  << Tpl("bridge", "normal", "medium"), Tpl("stranger", "normal", "easy"),
     Tpl("treasure", "normal", "medium"), Tpl("fork", "normal", "easy"),
     Tpl("injured", "normal", "medium"), Tpl("ruins", "normal", "hard"),
     Tpl("merchant", "normal", "easy"), Tpl("shrine", "normal", "medium"),
     Tpl("storm", "normal", "medium"), Tpl("river", "normal", "hard"),
     Tpl("village", "normal", "hard"), Tpl("beast", "normal", "medium"),
     Tpl("bandits", "combat", "easy"), Tpl("wolves", "combat", "medium"),
     Tpl("undead", "combat", "medium"), Tpl("cultists", "combat", "hard"),
     Tpl("ogre", "combat", "hard"), Tpl("spiders", "combat", "medium"),
     Tpl("elementals", "combat", "hard"), Tpl("guards", "combat", "easy"),
     Tpl("goblins", "combat", "easy"), Tpl("demon", "combat", "hard") >>

RangeError == [name |-> "RangeError", text |-> "Maximum call stack size exceeded"]

\* EVENT_TEMPLATES.filter(type).filter(difficulty)
Candidates(type, difficulty) ==
  SelectSeq(EVENT_TEMPLATES, LAMBDA t : t.type = type /\ t.difficulty = difficulty)

\* (variant: the used templates are not filtered out)
UnusedIgnoringUsed(candidates, used) == candidates

\* candidates.filter(t => !this.usedTemplates.has(t.id))
Unused(candidates, used) == SelectSeq(candidates, LAMBDA t : t.id \notin used)

\* unused[Math.floor(Math.random() * unused.length)], then usedTemplates.add
PickTemplate(unused, used, roll) ==
  LET template == unused[FloorRandom(roll, Len(unused)) + 1]
  IN  [thrown |-> FALSE, value |-> template, used |-> used \cup {template.id}]

\* (variant: an exhausted pool is not reset, the call throws)
GetRandomTemplateNoReset(used, type, difficulty, roll) ==
  LET candidates == Candidates(type, difficulty)
  IN  IF Len(Unused(candidates, used)) # 0
      THEN PickTemplate(Unused(candidates, used), used, roll)
      ELSE [thrown |-> TRUE, error |-> RangeError, used |-> used]

\* getRandomTemplate(type, difficulty) on a selector whose usedTemplates is
\* `used`: the template returned and the new usedTemplates. With no unused
\* candidate it clears usedTemplates and calls itself again; with no
\* candidate at all that recursion never ends.
GetRandomTemplate(used, type, difficulty, roll) ==
  LET candidates == Candidates(type, difficulty)
  IN  IF Len(Unused(candidates, used)) # 0
      THEN PickTemplate(Unused(candidates, used), used, roll)
      ELSE IF Len(candidates) # 0 THEN PickTemplate(candidates, {}, roll)
      ELSE [thrown |-> TRUE, error |-> RangeError, used |-> {}]

\* Variant: the mixed band whatever the event count.
GetWeightedDifficultyFlat(count, rand) ==
  IF rand < 30 THEN "easy" ELSE IF rand < 80 THEN "medium" ELSE "hard"

\* getWeightedDifficulty(count), rand = Math.random() in hundredths.
GetWeightedDifficulty(count, rand) ==
  IF count < 3 THEN (IF rand < 70 THEN "easy" ELSE "medium")
  ELSE IF count < 6
       THEN (IF rand < 30 THEN "easy" ELSE IF rand < 80 THEN "medium" ELSE "hard")
  ELSE (IF rand < 20 THEN "medium" ELSE "hard")

\* EventGenerator.generateEvent: difficulty and template are chosen before
\* the try block, so a throw there rejects the returned promise.
\* Every outcome: the settled promise and the selector's new usedTemplates.
GenerateEvent(used, count, personalities, r) ==
  { LET sel == GetRandomTemplate(used, "normal",
                                 GetWeightedDifficulty(count, rand), roll)
    IN  IF sel.thrown
        THEN [promise |-> Rejected(sel.error), used |-> sel.used]
        ELSE [promise |-> GenerateEventBody(sel.value.id, personalities, r),
              used |-> sel.used] :
    rand \in RandomRolls, roll \in RandomRolls }


(***************************************************************************)
(* Stat model: Agent and Enemy. hp, maxHp and every damage / heal amount   *)
(* are in half points; attack and mind are in points.                      *)
(***************************************************************************)
Max(a, b) == IF a >= b THEN a ELSE b
Min(a, b) == IF a <= b THEN a ELSE b

\* a number of points as half points
Pts(n) == 2 * n

Agent(name, hp, maxHp, attack, mind) ==
  [name |-> name, hp |-> Pts(hp), maxHp |-> Pts(maxHp), attack |-> attack,
   mind |-> mind, personality |-> JStr("p"), trauma |-> <<>>,
   isDefending |-> FALSE, nan |-> {}]

Enemy(name, hp, attack) ==
  [name |-> name, hp |-> Pts(hp), maxHp |-> Pts(hp), attack |-> attack,
   isDefending |-> FALSE]

\* The stat of x holds NaN. The names of the stats of an agent that hold
\* NaN are kept in its field nan (such a stat keeps 0 as its number); NaN
\* stays NaN under every later addition and clamp.
IsNaN(x, stat) == "nan" \in DOMAIN x /\ stat \in x.nan

\* isAlive(): this.hp > 0 (false for NaN)
IsAlive(x) == ~IsNaN(x, "hp") /\ x.hp > 0

\* (variant: a defended hit is halved without Math.floor)
ActualDamageNoFloor(x, amount) ==
  IF x.isDefending THEN amount \div 2 ELSE amount

\* takeDamage: const actualDamage = this.isDefending ? Math.floor(amount * 0.5) : amount
ActualDamage(x, amount) ==
  IF x.isDefending THEN Pts(amount \div 4) ELSE amount

\* (variant: takeDamage leaves the flag up)
TakeDamageKeepsGuard(x, amount) ==
  [x EXCEPT !.hp = Max(0, x.hp - ActualDamage(x, amount))]

\* takeDamage: this.hp = Math.max(0, this.hp - actualDamage); this.isDefending = false
TakeDamage(x, amount) ==
  [x EXCEPT !.hp = Max(0, x.hp - ActualDamage(x, amount)),
            !.isDefending = FALSE]

\* (variant: heal returns the amount it was asked for)
ActualHealRequested(x, amount) == amount

\* heal: this.hp = Math.min(this.maxHp, this.hp + amount); return this.hp - oldHp
Heal(x, amount) == [x EXCEPT !.hp = Min(x.maxHp, x.hp + amount)]
ActualHeal(x, amount) == Heal(x, amount).hp - x.hp

\* defend() / resetDefense()
Defend(x) == [x EXCEPT !.isDefending = TRUE]
ResetDefense(x) == [x EXCEPT !.isDefending = FALSE]

\* Enemy.chooseAction(targets): defend when hp < maxHp * 0.3, else attack the
\* first target with the lowest hp. target is a 0-based index.
LowOnHp(e) == 10 * e.hp < 3 * e.maxHp

WeakestIndex(targets) ==
  CHOOSE i \in 1..Len(targets) :
    /\ \A j \in 1..Len(targets) : targets[i].hp <= targets[j].hp
    /\ \A j \in 1..(i - 1) : targets[j].hp > targets[i].hp

ChooseAction(e, targets) ==
  IF LowOnHp(e) THEN [action |-> "defend", target |-> 0]
  ELSE [action |-> "attack", target |-> WeakestIndex(targets) - 1]

\* (variant: no filter, every member of the roster is asked)
AllIndices(roster) == [i \in 1..Len(roster) |-> i]

\* Indices of the living members of a roster, in roster order:
\* roster.filter(x => x.isAlive())
AliveIndices(roster) ==
  SelectSeq([i \in 1..Len(roster) |-> i], LAMBDA i : IsAlive(roster[i]))

\* some(x => x.isAlive())
SomeAlive(roster) == \E i \in 1..Len(roster) : IsAlive(roster[i])


(***************************************************************************)
(* What a Gateway call made by the turn resolution can come back with      *)
(***************************************************************************)
GatewayFailure ==
  Rejected(ExhaustedError("ollama", DefaultMaxRetries, ErrMessage("network")))

GatewayOutcomes(texts) ==
  IF llmDown THEN {GatewayFailure}
  ELSE {GatewayFailure} \cup {ParseResponse(text) : text \in texts}

\* Math.random() of this run
Rolls == IF stubRandom THEN {0} ELSE RandomRolls

CombatDecisionTexts ==
  { "{'action':'attack','target':1,'reasoning':'r'}",
    "{'action':'defend','target':0,'reasoning':'r'}",
    "{'action':'heal','target':'self','reasoning':'r'}",
    "{'action':'special','target':0,'reasoning':'r'}",
    "{'action':'flee','target':0,'reasoning':'r'}" }

CombatJudgeTexts ==
  { "{'success':true,'damage':4,'narrative':'n'}",
    "{'success':false,'damage':0,'narrative':'n'}",
    "{'success':true,'damage':-20,'narrative':'n'}",
    "{}",
    "null" }

(***************************************************************************)
(* CombatSystem                                                            *)
(***************************************************************************)
\* `array[v]` for a JavaScript value v: the 1-based position it selects in
\* a list of length len, 0 when the read yields undefined.
ArrayAt(len, v) ==
  IF v.t = "num" /\ v.n \in 0..(len - 1) THEN v.n + 1 ELSE 0

\* getAliveEnemy(index): aliveEnemies[index] || aliveEnemies[0] || null,
\* as the index of the enemy in this.enemies (0: null).
GetAliveEnemy(roster, index) ==
  LET alive == AliveIndices(roster)
  IN  IF ArrayAt(Len(alive), index) # 0 THEN alive[ArrayAt(Len(alive), index)]
      ELSE IF Len(alive) > 0 THEN alive[1]
      ELSE 0

\* Variant: the index is read in this.agents, the fallen included.
HealTargetAnyIndex(roster, self, target) ==
  IF target = JStr("self") THEN self ELSE ArrayAt(Len(roster), target)

\* heal target: action.target === 'self' ? agent : this.agents.filter(alive)[action.target]
HealTarget(roster, self, target) ==
  LET alive == AliveIndices(roster)
  IN  IF target = JStr("self") THEN self
      ELSE IF ArrayAt(Len(alive), target) # 0 THEN alive[ArrayAt(Len(alive), target)]
      ELSE 0

\* judgement.damage || 0
DamageOrZero(v) == IF v.t = "num" THEN v.n ELSE 0

\* (variant: the attack has no strength)
AttackBaseDamageNone(agent, roll) == 0

\* attack: agent.attack + Math.floor(Math.random() * 5)
AttackBaseDamage(agent, roll) == Pts(agent.attack + FloorRandom(roll, 5))

\* special: agent.attack * 1.5 + Math.floor(Math.random() * 10)
SpecialBaseDamage(agent, roll) == 3 * agent.attack + Pts(FloorRandom(roll, 10))

\* heal: agent.mind + Math.floor(Math.random() * 5)
HealAmount(agent, roll) == Pts(agent.mind + FloorRandom(roll, 5))

\* enemy attack: enemy.attack + Math.floor(Math.random() * 5)
EnemyDamage(enemy, roll) == Pts(enemy.attack + FloorRandom(roll, 5))

\* Variant: the loop watches the agents only.
LoopConditionAgentsOnly(as, es) == SomeAlive(as)

\* while (this.hasAliveAgents() && this.hasAliveEnemies())
LoopCondition(as, es) == SomeAlive(as) /\ SomeAlive(es)

\* (variant: agentPhase never breaks out of its loop)
AgentPhaseNoBreak(es) == FALSE

\* agentPhase: if (!this.hasAliveEnemies()) break
AgentPhaseBreak(es) == ~SomeAlive(es)

\* enemyPhase: if (!this.hasAliveAgents()) break
EnemyPhaseBreak(as) == ~SomeAlive(as)

\* runCombat's return value
CombatResult(as) ==
  [victory |-> SomeAlive(as), survivingAgents |-> AliveIndices(as)]

MapSet(map, key, value) ==
  [k \in DOMAIN map \cup {key} |-> IF k = key THEN value ELSE map[k]]

\* runCombat rejects: nothing on the way up catches.
CombatRejects(error) ==
  /\ cbPc' = "rejected"
  /\ cbResult' = Rejected(error)

\* executeTurn, up to the await of batchCombatActions in agentPhase.
StartTurn ==
  /\ cbPc = "loop"
  /\ LoopCondition(agents, enemies)
  /\ turn < MaxTurns
  /\ turn' = turn + 1
  /\ agents' = [i \in 1..Len(agents) |-> ResetDefense(agents[i])]
  /\ enemies' = [i \in 1..Len(enemies) |-> ResetDefense(enemies[i])]
  /\ aliveAgents' = AliveIndices(agents)
  /\ aliveEnemies' = AliveIndices(enemies)
  /\ pending' = {aliveAgents'[k] : k \in 1..Len(aliveAgents')}
  /\ actions' = <<>>
  /\ cbPc' = "deciding"
  /\ UNCHANGED <<startedAlive, idx, cur, agentTargets, lastTurn,
                 agentActionCount, enemyActionCount, cbResult>>
  /\ UNCHANGED cbFrame

\* The loop condition fails: runCombat returns.
ReturnCombat ==
  /\ cbPc = "loop"
  /\ ~LoopCondition(agents, enemies)
  /\ cbPc' = "returned"
  /\ cbResult' = Resolved(CombatResult(agents))
  /\ UNCHANGED <<agents, enemies, turn, startedAlive, aliveAgents, pending, actions,
                 idx, cur, aliveEnemies, agentTargets, lastTurn, agentActionCount,
                 enemyActionCount>>
  /\ UNCHANGED cbFrame

\* batchCombatActions: the decideCombatAction call of one living agent settles.
DecisionSettles ==
  /\ cbPc = "deciding"
  /\ \E i \in pending, r \in GatewayOutcomes(CombatDecisionTexts) :
       LET p == DecideCombatAction(r)
       IN  IF p.state = "resolved"
           THEN /\ actions' = MapSet(actions, agents[i].name, p.value)
                /\ pending' = pending \ {i}
                /\ UNCHANGED <<cbPc, cbResult>>
           ELSE /\ CombatRejects(p.error)
                /\ UNCHANGED <<actions, pending>>
  /\ UNCHANGED <<agents, enemies, turn, startedAlive, aliveAgents, idx, cur,
                 aliveEnemies, agentTargets, lastTurn, agentActionCount,
                 enemyActionCount>>
  /\ UNCHANGED cbFrame

\* (variant: the batch resolves as soon as one decision is left, like a race)
AllSettledButOne(waitingFor) == Cardinality(waitingFor) <= 1

\* await Promise.all(promises): every promise of the batch has resolved.
AllSettled(waitingFor) == waitingFor = {}

\* Promise.all resolves: agentPhase enters its for loop.
BatchResolved ==
  /\ cbPc = "deciding"
  /\ AllSettled(pending)
  /\ cbPc' = "acting"
  /\ idx' = 1
  /\ UNCHANGED <<agents, enemies, turn, startedAlive, aliveAgents, pending, actions,
                 cur, aliveEnemies, agentTargets, lastTurn, agentActionCount,
                 enemyActionCount, cbResult>>
  /\ UNCHANGED cbFrame

\* this.turnLog.push(result), then the loop of agentPhase goes on or breaks.
AgentActionDone(entry_, es) ==
  /\ lastTurn' = entry_
  /\ agentActionCount' = agentActionCount + 1
  /\ idx' = idx + 1
  /\ cbPc' = IF AgentPhaseBreak(es) \/ idx = Len(aliveAgents)
             THEN "agentsDone" ELSE "acting"

TurnEntry(actor, verb, target, damage, actorType) ==
  [actor |-> actor, action |-> verb, target |-> target, damage |-> damage,
   actorType |-> actorType]

\* executeAgentAction, up to its await (attack, special) or to its end.
ExecuteAgentAction ==
  /\ cbPc = "acting"
  /\ LET a == aliveAgents[idx]
         agent == agents[a]
         action == actions[agent.name]
         verb == Field(action, "action").s
         target == Field(action, "target")
     IN  CASE verb \in {"attack", "special"} ->
                LET e == GetAliveEnemy(enemies, target)
                IN  IF e = 0
                    THEN /\ AgentActionDone(TurnEntry(agent.name, verb, "", 0, "agent"),
                                            enemies)
                         /\ UNCHANGED <<agents, enemies, cur>>
                    ELSE /\ cbPc' = "judging"
                         /\ cur' = [agent |-> a, verb |-> verb, target |-> e]
                         /\ UNCHANGED <<agents, enemies, idx, lastTurn,
                                        agentActionCount>>
           [] verb = "defend" ->
                /\ agents' = [agents EXCEPT ![a] = Defend(agent)]
                /\ AgentActionDone(TurnEntry(agent.name, verb, "self", 0, "agent"),
                                   enemies)
                /\ UNCHANGED <<enemies, cur>>
           [] verb = "heal" ->
                LET h == HealTarget(agents, a, target)
                IN  IF h = 0
                    THEN /\ AgentActionDone(TurnEntry(agent.name, verb, "", 0, "agent"),
                                            enemies)
                         /\ UNCHANGED <<agents, enemies, cur>>
                    ELSE \E roll \in Rolls :
                           /\ agents' = [agents EXCEPT
                                           ![h] = Heal(agents[h], HealAmount(agent, roll))]
                           /\ AgentActionDone(
                                TurnEntry(agent.name, verb, agents[h].name,
                                          0 - ActualHeal(agents[h], HealAmount(agent, roll)),
                                          "agent"),
                                enemies)
                           /\ UNCHANGED <<enemies, cur>>
  /\ UNCHANGED <<turn, startedAlive, aliveAgents, pending, actions, aliveEnemies,
                 agentTargets, enemyActionCount, cbResult>>
  /\ UNCHANGED cbFrame

\* Variant: a failed attack still lands its base damage.
AttackResultGlancing(enemy, base, judgement) ==
  LET total == IF Truthy(Field(judgement, "success"))
               THEN base + Pts(DamageOrZero(Field(judgement, "damage")))
               ELSE base
  IN  [enemy |-> TakeDamage(enemy, total), damage |-> ActualDamage(enemy, total)]

\* if (judgement.success) { target.takeDamage(baseDamage + (judgement.damage
\* || 0)); result.damage = actualDamage } else { result.damage stays 0 }
AttackResult(enemy, base, judgement) ==
  IF Truthy(Field(judgement, "success"))
  THEN LET total == base + Pts(DamageOrZero(Field(judgement, "damage")))
       IN  [enemy |-> TakeDamage(enemy, total), damage |-> ActualDamage(enemy, total)]
  ELSE [enemy |-> enemy, damage |-> 0]

\* The judgeCombatAction call of the running attack / special settles and
\* executeAgentAction runs to its end.
JudgementSettles ==
  /\ cbPc = "judging"
  /\ \E r \in GatewayOutcomes(CombatJudgeTexts),
        roll1 \in Rolls, roll2 \in Rolls, roll3 \in Rolls :
       LET agent == agents[cur.agent]
           enemy == enemies[cur.target]
           p == JudgeCombatAction(agent.name, cur.verb, roll1, roll2, r)
           base == IF cur.verb = "attack" THEN AttackBaseDamage(agent, roll3)
                   ELSE SpecialBaseDamage(agent, roll3)
       IN  IF p.state = "rejected"
           THEN /\ CombatRejects(p.error)
                /\ UNCHANGED <<enemies, idx, lastTurn, agentActionCount>>
           ELSE IF ~CanRead(p.value)
           THEN /\ CombatRejects(TypeError)
                /\ UNCHANGED <<enemies, idx, lastTurn, agentActionCount>>
           ELSE LET hit == AttackResult(enemy, base, p.value)
                    es == [enemies EXCEPT ![cur.target] = hit.enemy]
                IN  /\ enemies' = es
                    /\ AgentActionDone(
                         TurnEntry(agent.name, cur.verb, enemy.name, hit.damage,
                                   "agent"), es)
                    /\ UNCHANGED cbResult
  /\ UNCHANGED <<agents, turn, startedAlive, aliveAgents, pending, actions, cur,
                 aliveEnemies, agentTargets, enemyActionCount>>
  /\ UNCHANGED cbFrame

\* agentPhase is over: executeTurn returns when no enemy is left, else
\* enemyPhase takes its snapshots.
AgentPhaseDone ==
  /\ cbPc = "agentsDone"
  /\ IF ~SomeAlive(enemies) \/ Len(AliveIndices(agents)) = 0
     THEN /\ cbPc' = "loop"
          /\ UNCHANGED <<aliveEnemies, aliveAgents, agentTargets, idx>>
     ELSE /\ aliveEnemies' = AliveIndices(enemies)
          /\ aliveAgents' = AliveIndices(agents)
          /\ agentTargets' = [k \in 1..Len(aliveAgents') |->
                                [name |-> agents[aliveAgents'[k]].name,
                                 hp |-> agents[aliveAgents'[k]].hp]]
          /\ idx' = 1
          /\ cbPc' = "enemy"
  /\ UNCHANGED <<agents, enemies, turn, startedAlive, pending, actions, cur,
                 lastTurn, agentActionCount, enemyActionCount, cbResult>>
  /\ UNCHANGED cbFrame

\* One iteration of the for loop of enemyPhase.
EnemyActs ==
  /\ cbPc = "enemy"
  /\ LET e == aliveEnemies[idx]
         enemy == enemies[e]
         choice == ChooseAction(enemy, agentTargets)
     IN  IF choice.action = "defend"
         THEN /\ enemies' = [enemies EXCEPT ![e] = Defend(enemy)]
              /\ lastTurn' = TurnEntry(enemy.name, "defend", "self", 0, "enemy")
              /\ cbPc' = IF EnemyPhaseBreak(agents) \/ idx = Len(aliveEnemies)
                         THEN "loop" ELSE "enemy"
              /\ UNCHANGED agents
         ELSE \E roll \in Rolls :
                LET t == aliveAgents[choice.target + 1]
                    as == [agents EXCEPT
                             ![t] = TakeDamage(agents[t], EnemyDamage(enemy, roll))]
                IN  /\ agents' = as
                    /\ lastTurn' = TurnEntry(enemy.name, "attack", agents[t].name,
                                             ActualDamage(agents[t],
                                                          EnemyDamage(enemy, roll)),
                                             "enemy")
                    /\ cbPc' = IF EnemyPhaseBreak(as) \/ idx = Len(aliveEnemies)
                               THEN "loop" ELSE "enemy"
                    /\ UNCHANGED enemies
  /\ idx' = idx + 1
  /\ enemyActionCount' = enemyActionCount + 1
  /\ UNCHANGED <<turn, startedAlive, aliveAgents, pending, actions, cur,
                 aliveEnemies, agentTargets, agentActionCount, cbResult>>
  /\ UNCHANGED cbFrame


(***************************************************************************)
(* Agent.modifyStats / addTrauma and EventJudge.applyResults               *)
(***************************************************************************)
\* `stat + d` for a JavaScript value d, as the number added to stat or NaN:
\* null adds 0, true adds 1, a string is concatenated to the digits of stat
\* and an object to "[object Object]", which no clamp reads as a number
\* (the strings followed hold no digit; the empty string leaves stat as is).
StatDelta(d) ==
  CASE d.t = "num" -> [nan |-> FALSE, n |-> d.n]
    [] d.t = "null" -> [nan |-> FALSE, n |-> 0]
    [] d.t = "bool" -> [nan |-> FALSE, n |-> IF d.b THEN 1 ELSE 0]
    [] d.t = "str" /\ d.s = "" -> [nan |-> FALSE, n |-> 0]
    [] d.t = "str" /\ d.s # "" -> [nan |-> TRUE, n |-> 0]
    [] d.t = "obj" -> [nan |-> TRUE, n |-> 0]

\* if (changes.stat !== undefined): the stat is written.
Written(agent, changes, stat) == Field(changes, stat).t # "undefined"

\* The write makes the stat NaN: Math.max / Math.min of NaN is NaN.
TurnsNaN(agent, changes, stat) ==
  Written(agent, changes, stat)
    /\ (IsNaN(agent, stat) \/ StatDelta(Field(changes, stat)).nan)

\* (variant: the stats are added to without the clamps)
ModifyStatsUnclamped(agent, changes) ==
  [agent EXCEPT
     !.hp = IF Written(agent, changes, "hp")
            THEN @ + Pts(StatDelta(Field(changes, "hp")).n) ELSE @,
     !.attack = IF Written(agent, changes, "attack")
                THEN @ + StatDelta(Field(changes, "attack")).n ELSE @,
     !.mind = IF Written(agent, changes, "mind")
              THEN @ + StatDelta(Field(changes, "mind")).n ELSE @]

\* modifyStats(changes): a field that is absent leaves the stat alone;
\* hp = Math.max(0, Math.min(maxHp, hp + changes.hp)),
\* attack = Math.max(1, attack + changes.attack), mind likewise.
ModifyStats(agent, changes) ==
  LET dHp == Field(changes, "hp")
      dAttack == Field(changes, "attack")
      dMind == Field(changes, "mind")
  IN  [agent EXCEPT
         !.hp = IF ~Written(agent, changes, "hp") THEN @
                ELSE IF TurnsNaN(agent, changes, "hp") THEN 0
                ELSE Max(0, Min(agent.maxHp, agent.hp + Pts(StatDelta(dHp).n))),
         !.attack = IF ~Written(agent, changes, "attack") THEN @
                    ELSE IF TurnsNaN(agent, changes, "attack") THEN 0
                    ELSE Max(1, agent.attack + StatDelta(dAttack).n),
         !.mind = IF ~Written(agent, changes, "mind") THEN @
                  ELSE IF TurnsNaN(agent, changes, "mind") THEN 0
                  ELSE Max(1, agent.mind + StatDelta(dMind).n),
         !.nan = @ \cup {stat \in {"hp", "attack", "mind"} :
                           TurnsNaN(agent, changes, stat)}]

\* (variant: addTrauma pushes without looking)
AddTraumaAlways(agent, trauma) == [agent EXCEPT !.trauma = Append(@, trauma)]

\* addTrauma(trauma): if (!this.trauma.includes(trauma)) this.trauma.push(trauma)
AddTrauma(agent, trauma) ==
  IF \E i \in 1..Len(agent.trauma) : agent.trauma[i] = trauma
  THEN agent
  ELSE [agent EXCEPT !.trauma = Append(@, trauma)]

\* Variant: a name that is not in the roster finds the first agent.
FindAgentOrFirst(roster, name) ==
  IF \E i \in 1..Len(roster) : JStr(roster[i].name) = name
  THEN CHOOSE i \in 1..Len(roster) :
         /\ JStr(roster[i].name) = name
         /\ \A j \in 1..(i - 1) : JStr(roster[j].name) # name
  ELSE IF Len(roster) > 0 THEN 1 ELSE 0

\* agents.find(a => a.name === result.name): its index, 0 when there is none
FindAgent(roster, name) ==
  IF \E i \in 1..Len(roster) : JStr(roster[i].name) = name
  THEN CHOOSE i \in 1..Len(roster) :
         /\ JStr(roster[i].name) = name
         /\ \A j \in 1..(i - 1) : JStr(roster[j].name) # name
  ELSE 0

\* One iteration of the loop of applyResults on the roster `roster`.
ApplyResult(roster, result) ==
  IF ~CanRead(result) THEN [thrown |-> TRUE, roster |-> roster]
  ELSE LET a == FindAgent(roster, Field(result, "name"))
           statChange == Field(result, "statChange")
           trauma == Field(result, "trauma")
       IN  IF a = 0 THEN [thrown |-> FALSE, roster |-> roster]
           ELSE IF ~CanRead(statChange) THEN [thrown |-> TRUE, roster |-> roster]
           ELSE LET modified == ModifyStats(roster[a], statChange)
                IN  [thrown |-> FALSE,
                     roster |-> [roster EXCEPT
                                   ![a] = IF Truthy(trauma)
                                          THEN AddTrauma(modified, trauma)
                                          ELSE modified]]

\* The loop of applyResults over results[k..]: it stops at the first throw,
\* keeping what the earlier iterations did. (The iteration's outcome is
\* drawn from a singleton so that it is evaluated once.)
RECURSIVE ApplyFrom(_, _, _)
ApplyFrom(roster, results, k) ==
  IF k > Len(results) THEN [thrown |-> FALSE, roster |-> roster]
  ELSE CHOOSE out \in { IF one.thrown THEN one
                        ELSE ApplyFrom(one.roster, results, k + 1) :
                        one \in {ApplyResult(roster, results[k])} } : TRUE

\* applyResults(agents, results): `for (const result of results)` throws on
\* a value that is not iterable.
ApplyResults(roster, results) ==
  IF results.t # "arr" THEN [thrown |-> TRUE, roster |-> roster]
  ELSE ApplyFrom(roster, results.a, 1)

(***************************************************************************)
(* ChatLog streaming and what the scene feeds it                           *)
(***************************************************************************)
\* streamMessage / streamMessages: calculateDelay reads content.length and
\* throws on a content that is null or undefined.
StreamThrows(content) == ~CanRead(content)

\* onDoctrineSubmit, the loop showing results: result.statChange.hp throws
\* when a result carries no statChange.
FeedbackThrows(results) ==
  \E k \in 1..Len(results.a) :
    \/ ~CanRead(results.a[k])
    \/ ~CanRead(Field(results.a[k], "statChange"))

\* decisions.set(name, decision) / decisions.get(name) on a Map kept as the
\* sequence of its entries in insertion order.
DecisionsSet(decisions, name, decision) ==
  IF \E k \in 1..Len(decisions) : decisions[k].name = name
  THEN [k \in 1..Len(decisions) |->
          IF decisions[k].name = name
          THEN [name |-> name, decision |-> decision] ELSE decisions[k]]
  ELSE Append(decisions, [name |-> name, decision |-> decision])

DecisionsGet(decisions, name) ==
  IF \E k \in 1..Len(decisions) : decisions[k].name = name
  THEN (CHOOSE e \in {decisions[k] : k \in 1..Len(decisions)} : e.name = name).decision
  ELSE JUndefined

\* onDoctrineSubmit, the loop streaming the decisions of the living agents:
\* a falsy decision is skipped, a decision without action makes the stream throw.
DecisionStreamThrows(roster, decisions) ==
  \E i \in 1..Len(roster) :
    /\ IsAlive(roster[i])
    /\ Truthy(DecisionsGet(decisions, roster[i].name))
    /\ StreamThrows(Field(DecisionsGet(decisions, roster[i].name), "action"))

\* Array.from(decisions.entries()).map(([name, decision]) => ({name,
\* action: decision.action, reasoning: decision.reasoning}))
AgentActionsThrows(decisions) ==
  \E k \in 1..Len(decisions) : ~CanRead(decisions[k].decision)

AgentActions(decisions) ==
  [k \in 1..Len(decisions) |->
     [name |-> JStr(decisions[k].name),
      action |-> Field(decisions[k].decision, "action"),
      reasoning |-> Field(decisions[k].decision, "reasoning")]]

\* isPartyAlive(): this.agents.some(a => a.isAlive())
IsPartyAlive(roster) == SomeAlive(roster)

\* personalities of the party handed to generateEvent: the living agents'
PersonalitiesOf(roster) ==
  LET alive == AliveIndices(roster)
  IN  [k \in 1..Len(alive) |-> roster[alive[k]].personality]

RemoveAt(seq, i) ==
  [j \in 1..(Len(seq) - 1) |-> IF j < i THEN seq[j] ELSE seq[j + 1]]

EventGenTexts == { "{'description':'d','challenge':'c'}", "{}" }

EventDecisionTexts ==
  { "{'action':'attack','target':1,'reasoning':'r'}", "null" }

EventJudgeTexts ==
  { "{'summary':'s','results':[]}",
    "{}",
    "{'summary':'s','results':[{'name':'A','outcome':'bad','statChange':{'hp':-3,'mind':1},'trauma':'x','feedback':'f'}]}",
    "{'summary':'s','results':[{'name':'A','outcome':'bad','statChange':{'hp':-200},'feedback':'f'},{'name':'B','outcome':'bad','statChange':{'hp':-200},'feedback':'f'}]}",
    "{'summary':'s','results':[{'name':'Z','outcome':'good','feedback':'f'}]}",
    "{'summary':'s','results':[{'name':'A','outcome':'bad','statChange':{'hp':'x'},'feedback':'f'}]}" }

(***************************************************************************)
(* GamePlayScene: create, startNextEvent, handleNormalEvent, gameOver      *)
(***************************************************************************)
\* Every step below resumes one suspended call at its await and runs it to
\* its next await or to its end; awaits that only stream messages and touch
\* no state in between are taken together.

\* create(), after the welcome message: the callback is registered and the
\* first startNextEvent is scheduled.
CreateDone ==
  \E i \in 1..Len(tasks) :
    /\ tasks[i].kind = "create"
    /\ callbackSet' = TRUE
    /\ timers' = timers + 1
    /\ tasks' = RemoveAt(tasks, i)
    /\ UNCHANGED <<agents, inputEnabled, doctrine, currentEvent, eventCount,
                   eventsCleared, usedTemplates, eventHistory, gameOverShown,
                   promptedFor, submits>>
    /\ UNCHANGED evFrame

\* A delayedCall timer fires: startNextEvent runs to its first await.
StartNextEvent ==
  /\ timers > 0
  /\ timers' = timers - 1
  /\ IF ~IsPartyAlive(agents)
     THEN /\ tasks' = Append(tasks, [kind |-> "start", pc |-> "gameOver"])
          /\ UNCHANGED eventCount
     ELSE /\ eventCount < MaxEvents
          /\ eventCount' = eventCount + 1
          /\ tasks' = Append(tasks, [kind |-> "start", pc |-> "announce"])
  /\ UNCHANGED <<agents, callbackSet, inputEnabled, doctrine, currentEvent,
                 eventsCleared, usedTemplates, eventHistory, gameOverShown,
                 promptedFor, submits>>
  /\ UNCHANGED evFrame

\* startNextEvent after "Generating event...": generateEvent picks the
\* difficulty and the template and issues its Gateway call.
GenerateEventCalled ==
  \E i \in 1..Len(tasks), rand \in Rolls, roll \in Rolls :
    /\ tasks[i].kind = "start" /\ tasks[i].pc = "announce"
    /\ LET sel == GetRandomTemplate(usedTemplates, "normal",
                                    GetWeightedDifficulty(eventCount, rand), roll)
       IN
         /\ usedTemplates' = sel.used
         /\ tasks' = [tasks EXCEPT ![i] =
                        IF sel.thrown
                        THEN [kind |-> "start", pc |-> "error"]
                        ELSE [kind |-> "start", pc |-> "generating",
                              number |-> eventCount,
                              template |-> sel.value.id,
                              party |-> PersonalitiesOf(agents)]]
    /\ UNCHANGED <<agents, timers, callbackSet, inputEnabled, doctrine, currentEvent,
                   eventCount, eventsCleared, eventHistory, gameOverShown,
                   promptedFor, submits>>
    /\ UNCHANGED evFrame

\* generateEvent settles: this.currentEvent is assigned and handleNormalEvent
\* streams the event.
EventGenerated ==
  \E i \in 1..Len(tasks), r \in GatewayOutcomes(EventGenTexts) :
    /\ tasks[i].kind = "start" /\ tasks[i].pc = "generating"
    /\ LET p == GenerateEventBody(tasks[i].template, tasks[i].party, r)
       IN  IF p.state = "rejected"
           THEN /\ tasks' = [tasks EXCEPT ![i] = [kind |-> "start", pc |-> "error"]]
                /\ UNCHANGED currentEvent
           ELSE /\ currentEvent' = p.value
                /\ tasks' = [tasks EXCEPT ![i] =
                               IF StreamThrows(Field(p.value, "description"))
                               THEN [kind |-> "start", pc |-> "error"]
                               ELSE [kind |-> "start", pc |-> "prompting",
                                     number |-> tasks[i].number]]
    /\ UNCHANGED <<agents, timers, callbackSet, inputEnabled, doctrine, eventCount,
                   eventsCleared, usedTemplates, eventHistory, gameOverShown,
                   promptedFor, submits>>
    /\ UNCHANGED evFrame

\* handleNormalEvent after the prompt message: chatInput.setEnabled(true).
PromptShown ==
  \E i \in 1..Len(tasks) :
    /\ tasks[i].kind = "start" /\ tasks[i].pc = "prompting"
    /\ inputEnabled' = TRUE
    /\ promptedFor' = Max(promptedFor, tasks[i].number)
    /\ tasks' = RemoveAt(tasks, i)
    /\ UNCHANGED <<agents, timers, callbackSet, doctrine, currentEvent, eventCount,
                   eventsCleared, usedTemplates, eventHistory, gameOverShown,
                   submits>>
    /\ UNCHANGED evFrame

\* startNextEvent's catch block after its error message: retry in 2000 ms.
GenerateErrorShown ==
  \E i \in 1..Len(tasks) :
    /\ tasks[i].kind = "start" /\ tasks[i].pc = "error"
    /\ timers' = timers + 1
    /\ tasks' = RemoveAt(tasks, i)
    /\ UNCHANGED <<agents, callbackSet, inputEnabled, doctrine, currentEvent,
                   eventCount, eventsCleared, usedTemplates, eventHistory,
                   gameOverShown, promptedFor, submits>>
    /\ UNCHANGED evFrame

\* gameOver() after its two messages: chatInput.setEnabled(false).
GameOver ==
  \E i \in 1..Len(tasks) :
    /\ tasks[i].kind = "start" /\ tasks[i].pc = "gameOver"
    /\ inputEnabled' = FALSE
    /\ gameOverShown' = TRUE
    /\ tasks' = RemoveAt(tasks, i)
    /\ UNCHANGED <<agents, timers, callbackSet, doctrine, currentEvent, eventCount,
                   eventsCleared, usedTemplates, eventHistory, promptedFor, submits>>
    /\ UNCHANGED evFrame

(***************************************************************************)
(* ChatInput.submit and GamePlayScene.onDoctrineSubmit                     *)
(***************************************************************************)
Doctrines == {"Protect the weak."}

\* onDoctrineSubmit's catch block is entered.
SubmitFails == [kind |-> "submit", pc |-> "error"]

\* The player submits a doctrine: submit() returns at once while the input
\* is disabled; without a registered callback nothing of the scene runs.
\* Otherwise onDoctrineSubmit runs to its first await.
Submit(cap) ==
  /\ inputEnabled
  /\ callbackSet
  /\ submits < cap
  /\ \E d \in Doctrines : doctrine' = d
  /\ inputEnabled' = FALSE
  /\ submits' = submits + 1
  /\ tasks' = Append(tasks, [kind |-> "submit", pc |-> "announce"])
  /\ UNCHANGED <<agents, timers, callbackSet, currentEvent, eventCount, eventsCleared,
                 usedTemplates, eventHistory, gameOverShown, promptedFor>>
  /\ UNCHANGED evFrame

SubmitDoctrine == Submit(MaxSubmits)

\* After "Agents are deciding their actions...": return when there is no
\* current event, else batchEventDecisions issues one decideEventAction call
\* per living agent.
DecisionsRequested ==
  \E i \in 1..Len(tasks) :
    /\ tasks[i].kind = "submit" /\ tasks[i].pc = "announce"
    /\ tasks' = IF ~Truthy(currentEvent)
                THEN RemoveAt(tasks, i)
                ELSE [tasks EXCEPT ![i] =
                        [kind |-> "submit", pc |-> "deciding",
                         number |-> eventCount,
                         waiting |-> LET alive == AliveIndices(agents)
                                     IN  {alive[k] : k \in 1..Len(alive)},
                         decisions |-> <<>>]]
    /\ UNCHANGED <<agents, timers, callbackSet, inputEnabled, doctrine, currentEvent,
                   eventCount, eventsCleared, usedTemplates, eventHistory,
                   gameOverShown, promptedFor, submits>>
    /\ UNCHANGED evFrame

\* One decideEventAction call settles: decisions.set(agent.name, decision);
\* a rejection rejects Promise.all and lands in the catch block.
DecisionMade ==
  \E i \in 1..Len(tasks) :
    /\ tasks[i].kind = "submit" /\ tasks[i].pc = "deciding"
    /\ \E a \in tasks[i].waiting, r \in GatewayOutcomes(EventDecisionTexts) :
         LET p == DecideEventAction(agents[a].name, r)
         IN  tasks' = [tasks EXCEPT ![i] =
                         IF p.state = "rejected" THEN SubmitFails
                         ELSE [@ EXCEPT
                                 !.waiting = @ \ {a},
                                 !.decisions =
                                    DecisionsSet(@, agents[a].name, p.value)]]
    /\ UNCHANGED <<agents, timers, callbackSet, inputEnabled, doctrine, currentEvent,
                   eventCount, eventsCleared, usedTemplates, eventHistory,
                   gameOverShown, promptedFor, submits>>
    /\ UNCHANGED evFrame

\* Promise.all resolves: the decisions of the living agents are streamed,
\* then "Judging outcomes...", then judgeEvent is called with the
\* agentActions built from the Map.
JudgeEventCalled ==
  \E i \in 1..Len(tasks) :
    /\ tasks[i].kind = "submit" /\ tasks[i].pc = "deciding"
    /\ tasks[i].waiting = {}
    /\ tasks' = [tasks EXCEPT ![i] =
                   IF \/ DecisionStreamThrows(agents, tasks[i].decisions)
                      \/ AgentActionsThrows(tasks[i].decisions)
                   THEN SubmitFails
                   ELSE [kind |-> "submit", pc |-> "judging",
                         number |-> tasks[i].number,
                         agentActions |-> AgentActions(tasks[i].decisions)]]
    /\ UNCHANGED <<agents, timers, callbackSet, inputEnabled, doctrine, currentEvent,
                   eventCount, eventsCleared, usedTemplates, eventHistory,
                   gameOverShown, promptedFor, submits>>
    /\ UNCHANGED evFrame

\* judgeEvent settles: addSummary(judgement.summary), then the summary is
\* streamed.
EventJudged ==
  \E i \in 1..Len(tasks), r \in GatewayOutcomes(EventJudgeTexts) :
    /\ tasks[i].kind = "submit" /\ tasks[i].pc = "judging"
    /\ LET p == JudgeEvent(tasks[i].agentActions, r)
       IN  IF p.state = "rejected"
           THEN /\ tasks' = [tasks EXCEPT ![i] = SubmitFails]
                /\ UNCHANGED eventHistory
           ELSE IF ~CanRead(p.value)
           THEN /\ tasks' = [tasks EXCEPT ![i] = SubmitFails]
                /\ UNCHANGED eventHistory
           ELSE /\ eventHistory' = Append(eventHistory, Field(p.value, "summary"))
                /\ tasks' = [tasks EXCEPT ![i] =
                               IF StreamThrows(Field(p.value, "summary"))
                               THEN SubmitFails
                               ELSE [kind |-> "submit", pc |-> "summary",
                                     number |-> tasks[i].number,
                                     agentActions |-> tasks[i].agentActions,
                                     answer |-> r,
                                     judgement |-> p.value]]
    /\ UNCHANGED <<agents, timers, callbackSet, inputEnabled, doctrine, currentEvent,
                   eventCount, eventsCleared, usedTemplates, gameOverShown,
                   promptedFor, submits>>
    /\ UNCHANGED evFrame

\* After the summary: applyResults, the feedback of every result is
\* streamed, clearEvent(false), then "Continuing...".
ResultsApplied ==
  \E i \in 1..Len(tasks) :
    /\ tasks[i].kind = "submit" /\ tasks[i].pc = "summary"
    /\ LET results == Field(tasks[i].judgement, "results")
           applied == ApplyResults(agents, results)
           failed == applied.thrown \/ FeedbackThrows(results)
       IN  /\ agents' = applied.roster
           /\ eventsCleared' = IF failed THEN eventsCleared ELSE eventsCleared + 1
           /\ tasks' = [tasks EXCEPT ![i] =
                          IF failed THEN SubmitFails
                          ELSE [kind |-> "submit", pc |-> "continuing",
                                number |-> tasks[i].number,
                                answer |-> tasks[i].answer]]
    /\ UNCHANGED <<timers, callbackSet, inputEnabled, doctrine, currentEvent,
                   eventCount, usedTemplates, eventHistory, gameOverShown,
                   promptedFor, submits>>
    /\ UNCHANGED evFrame

\* After "Continuing...": the next startNextEvent is scheduled in 3000 ms.
ContinueScheduled ==
  \E i \in 1..Len(tasks) :
    /\ tasks[i].kind = "submit" /\ tasks[i].pc = "continuing"
    /\ timers' = timers + 1
    /\ tasks' = RemoveAt(tasks, i)
    /\ UNCHANGED <<agents, callbackSet, inputEnabled, doctrine, currentEvent,
                   eventCount, eventsCleared, usedTemplates, eventHistory,
                   gameOverShown, promptedFor, submits>>
    /\ UNCHANGED evFrame

\* onDoctrineSubmit's catch block after its error message:
\* chatInput.setEnabled(true).
SubmitErrorShown ==
  \E i \in 1..Len(tasks) :
    /\ tasks[i].kind = "submit" /\ tasks[i].pc = "error"
    /\ inputEnabled' = TRUE
    /\ tasks' = RemoveAt(tasks, i)
    /\ UNCHANGED <<agents, timers, callbackSet, doctrine, currentEvent, eventCount,
                   eventsCleared, usedTemplates, eventHistory, gameOverShown,
                   promptedFor, submits>>
    /\ UNCHANGED evFrame

GatewayInit ==
  /\ provider \in {"ollama", "groq"}
  /\ apiKey \in BOOLEAN
  /\ maxRetriesOpt \in 0..MaxRetriesOpt
  /\ maxRetries = ConstructorMaxRetries(maxRetriesOpt)
  /\ gwPc = "idle"
  /\ attempt = 0
  /\ fetchLog = <<>>
  /\ inFlight = 0
  /\ waits = <<>>
  /\ lastError = "none"
  /\ genResult = Pending
  /\ jsonResult = Pending

\* Nothing of the CombatSystem is running.
CombatIdle ==
  /\ enemies = <<>>
  /\ cbPc = "idle"
  /\ turn = 0
  /\ startedAlive = FALSE
  /\ aliveAgents = <<>>
  /\ pending = {}
  /\ actions = <<>>
  /\ idx = 0
  /\ cur = [verb |-> "none"]
  /\ aliveEnemies = <<>>
  /\ agentTargets = <<>>
  /\ lastTurn = [actorType |-> "none"]
  /\ agentActionCount = 0
  /\ enemyActionCount = 0
  /\ cbResult = Pending

\* No Gateway call of the retry machine is being followed.
GatewayIdle ==
  /\ maxRetriesOpt = 0
  /\ provider = "ollama"
  /\ apiKey = FALSE
  /\ maxRetries = ConstructorMaxRetries(0)
  /\ gwPc = "unused"
  /\ attempt = 0
  /\ fetchLog = <<>>
  /\ inFlight = 0
  /\ waits = <<>>
  /\ lastError = "none"
  /\ genResult = Pending
  /\ jsonResult = Pending
  /\ entry = "none"
  /\ epArgs = <<>>
  /\ epResult = Pending

\* The scene is not running.
\* No direct call has been made.
CallsIdle ==
  /\ lastCall = [op |-> "none"]
  /\ calls = 0
  /\ picks = <<>>

EventIdle ==
  /\ CallsIdle
  /\ tasks = <<>>
  /\ timers = 0
  /\ callbackSet = FALSE
  /\ inputEnabled = FALSE
  /\ doctrine = "Act with caution and prioritize survival."
  /\ currentEvent = JNull
  /\ eventCount = 0
  /\ eventsCleared = 0
  /\ usedTemplates = {}
  /\ eventHistory = <<>>
  /\ gameOverShown = FALSE
  /\ promptedFor = 0
  /\ submits = 0

Init ==
  /\ GatewayInit
  /\ entry = "none"
  /\ epArgs = <<>>
  /\ epResult = Pending
  /\ llmDown = FALSE
  /\ stubRandom = FALSE
  /\ combatsWon = 0
  /\ instance = 1
  /\ agents = <<>>
  /\ CombatIdle
  /\ EventIdle

(***************************************************************************)
(* One decision-layer call on top of the settled Gateway call              *)
(***************************************************************************)
Names == {"A", "B"}

\* agentActions arguments of judgeEvent
ActionOf(name) ==
  [name |-> JStr(name), action |-> JStr("act"), reasoning |-> JStr("why")]
ActionLists ==
  { <<>>, <<ActionOf("A")>>, <<ActionOf("A"), ActionOf("B")>>,
    <<ActionOf("B"), ActionOf("A")>> }

\* personalities of the party handed to generateEvent
PartyPersonalities == { <<JStr("p")>>, <<JStr("p"), JUndefined>> }

EntrySettled(e, args, promise) ==
  /\ gwPc = "settled"
  /\ gwPc' = "done"
  /\ entry' = e
  /\ epArgs' = args
  /\ epResult' = promise
  /\ UNCHANGED <<maxRetriesOpt, provider, apiKey, maxRetries, attempt, fetchLog, inFlight,
                 waits, lastError, genResult, jsonResult>>
  /\ UNCHANGED gwFrame

CallGeneratePersonality ==
  \E name \in Names :
    EntrySettled("generatePersonality", [name |-> name],
                 GeneratePersonality(name, jsonResult))

CallDecideEventAction ==
  \E name \in Names :
    EntrySettled("decideEventAction", [name |-> name],
                 DecideEventAction(name, jsonResult))

CallDecideCombatAction ==
  \E name \in Names :
    EntrySettled("decideCombatAction", [name |-> name],
                 DecideCombatAction(jsonResult))

CallJudgeEvent ==
  \E acts \in ActionLists :
    EntrySettled("judgeEvent", [agentActions |-> acts],
                 JudgeEvent(acts, jsonResult))

CallJudgeCombatAction ==
  \E name \in Names, roll1 \in RandomRolls, roll2 \in RandomRolls :
    EntrySettled("judgeCombatAction",
                 [name |-> name, roll1 |-> roll1, roll2 |-> roll2],
                 JudgeCombatAction(name, "attack", roll1, roll2, jsonResult))

CallGenerateEvent ==
  /\ gwPc = "settled"
  /\ \E count \in {1, 4, 7}, party \in PartyPersonalities :
    \E out \in GenerateEvent({}, count, party, jsonResult) :
      EntrySettled("generateEvent",
                   [count |-> count, party |-> party],
                   out.promise)

Next ==
  \/ Generate
  \/ FetchFails
  \/ BackoffElapsed
  \/ FetchSucceeds
  \/ GenerateJSONReturns
  \/ CallGeneratePersonality
  \/ CallDecideEventAction
  \/ CallDecideCombatAction
  \/ CallJudgeEvent
  \/ CallJudgeCombatAction
  \/ CallGenerateEvent

Spec == Init /\ [][Next]_vars
(***************************************************************************)
(* SpecCombat: one runCombat call on a roster                              *)
(***************************************************************************)
\* The rosters runCombat is followed on. The first is the roster of the
\* termination test: one agent (hp 100, attack 10), one enemy (hp 10,
\* attack 0), Math.random stubbed to 0.
CombatRosters ==
  { [agents |-> <<Agent("A", 100, 100, 10, 5)>>,
     enemies |-> <<Enemy("E1", 10, 0)>>,
     stub |-> TRUE],
    [agents |-> <<Agent("A", 5, 6, 5, 3), Agent("B", 4, 6, 3, 4)>>,
     enemies |-> <<Enemy("E1", 3, 3), Enemy("E2", 2, 3)>>,
     stub |-> TRUE],
    [agents |-> <<Agent("A", 0, 80, 5, 3), Agent("B", 7, 80, 4, 4)>>,
     enemies |-> <<Enemy("E1", 6, 7)>>,
     stub |-> FALSE],
    [agents |-> <<Agent("A", 0, 80, 5, 3)>>,
     enemies |-> <<Enemy("E1", 6, 7)>>,
     stub |-> FALSE] }

CombatStart(rosters) ==
  /\ GatewayIdle
  /\ EventIdle
  /\ llmDown \in BOOLEAN
  /\ \E roster \in rosters :
       /\ agents = roster.agents
       /\ enemies = roster.enemies
       /\ stubRandom = roster.stub
       /\ combatsWon = 0
       /\ instance = 1
  /\ cbPc = "loop"
  /\ turn = 0
  /\ startedAlive = (SomeAlive(agents) /\ SomeAlive(enemies))
  /\ aliveAgents = <<>>
  /\ pending = {}
  /\ actions = <<>>
  /\ idx = 0
  /\ cur = [verb |-> "none"]
  /\ aliveEnemies = <<>>
  /\ agentTargets = <<>>
  /\ lastTurn = [actorType |-> "none"]
  /\ agentActionCount = 0
  /\ enemyActionCount = 0
  /\ cbResult = Pending

CombatInit == CombatStart(CombatRosters)

CombatNext ==
  \/ StartTurn
  \/ ReturnCombat
  \/ DecisionSettles
  \/ BatchResolved
  \/ ExecuteAgentAction
  \/ JudgementSettles
  \/ AgentPhaseDone
  \/ EnemyActs

SpecCombat == CombatInit /\ [][CombatNext]_vars

(***************************************************************************)
(* SpecEvent: one run of GamePlayScene; SpecEventLive adds the scheduling  *)
(***************************************************************************)
\* Parties as createRandom makes them.
Solo == <<Agent("A", 80, 80, 3, 3)>>
Duo == <<Agent("A", 80, 80, 3, 7), Agent("B", 119, 119, 7, 3)>>

\* The runs followed: the Gateway down with Math.random() free, and the
\* Gateway answering with Math.random() stubbed to 0.
GatewayDown == [down |-> TRUE, stub |-> FALSE]
GatewayUp == [down |-> FALSE, stub |-> TRUE]

EventStarts == {GatewayDown, GatewayUp} \X {Solo, Duo}

\* The scene right after construction, with one of the given runs and
\* parties.
SceneInit(starts) ==
  /\ GatewayIdle
  /\ CombatIdle
  /\ CallsIdle
  /\ \E st \in starts :
       /\ llmDown = st[1].down
       /\ stubRandom = st[1].stub
       /\ combatsWon = 0
       /\ instance = 1
       /\ agents = st[2]
  /\ tasks = <<[kind |-> "create", pc |-> "welcome"]>>
  /\ timers = 0
  /\ callbackSet = FALSE
  /\ inputEnabled = TRUE
  /\ doctrine = "Act with caution and prioritize survival."
  /\ currentEvent = JNull
  /\ eventCount = 0
  /\ eventsCleared = 0
  /\ usedTemplates = {}
  /\ eventHistory = <<>>
  /\ gameOverShown = FALSE
  /\ promptedFor = 0
  /\ submits = 0

EventInit == SceneInit(EventStarts)

\* What the browser's event loop runs by itself: timers and continuations.
SceneStep ==
  \/ CreateDone
  \/ StartNextEvent
  \/ GenerateEventCalled
  \/ EventGenerated
  \/ PromptShown
  \/ GenerateErrorShown
  \/ GameOver
  \/ DecisionsRequested
  \/ DecisionMade
  \/ JudgeEventCalled
  \/ EventJudged
  \/ ResultsApplied
  \/ ContinueScheduled
  \/ SubmitErrorShown

EventNext ==
  \/ SubmitDoctrine
  \/ SceneStep

SpecEvent == EventInit /\ [][EventNext]_vars

\* Timers fire and settled awaits resume; every Gateway call settles. The
\* player is under no obligation to submit.
EventLiveStarts == {<<GatewayDown, Solo>>, <<GatewayDown, Duo>>, <<GatewayUp, Solo>>}

EventLiveInit == SceneInit(EventLiveStarts)

SpecEventLive == EventLiveInit /\ [][EventNext]_vars /\ WF_vars(SceneStep)

\* The same runs with a player who submits once more.
SubmitDoctrineAgain == Submit(MaxSubmits + 1)

RaceNext ==
  \/ SubmitDoctrineAgain
  \/ SceneStep

SpecEventRace == EventLiveInit /\ [][RaceNext]_vars

(***************************************************************************)
(* Properties of the Gateway and of the Decision layer (under Spec)        *)
(***************************************************************************)
IsFailure(x) == x \in FailureKinds
AllFailed == \A i \in 1..Len(fetchLog) : IsFailure(fetchLog[i])
GenerateOver == gwPc \in {"generated", "settled", "done"}

\* C3: when the Gateway fails on every call, decideCombatAction resolves (it
\* does not reject) with exactly
\* {action: "attack", target: 0, reasoning: "Defaulting to a basic attack."}.
C3_CombatFallbackOnGatewayFailure ==
  (gwPc = "done" /\ entry = "decideCombatAction" /\ AllFailed)
    => epResult = [state |-> "resolved",
                   value |-> [t |-> "obj",
                              f |-> [action |-> [t |-> "str", s |-> "attack"],
                                     target |-> [t |-> "num", n |-> 0],
                                     reasoning |-> [t |-> "str",
                                        s |-> "Defaulting to a basic attack."]]]]

C3_Witness ==
  /\ gwPc = "done" /\ entry = "decideCombatAction"
  /\ Len(fetchLog) = 3 /\ AllFailed
  /\ epResult.state = "resolved"
  /\ epResult.value.f.reasoning.s = "Defaulting to a basic attack."

\* C4: whatever the Gateway answers, the action decideCombatAction resolves
\* with has a verb among attack, defend, heal, special; an answer whose
\* action field is anything else is replaced by the fallback attack on
\* target 0.
AnswerVerbKnown ==
  /\ jsonResult.state = "resolved"
  /\ jsonResult.value.t = "obj"
  /\ "action" \in DOMAIN jsonResult.value.f
  /\ jsonResult.value.f.action.t = "str"
  /\ jsonResult.value.f.action.s \in {"attack", "defend", "heal", "special"}

C4_CombatActionVerbIsValid ==
  (gwPc = "done" /\ entry = "decideCombatAction")
    => /\ epResult.state = "resolved"
       /\ epResult.value.t = "obj"
       /\ epResult.value.f.action.t = "str"
       /\ epResult.value.f.action.s \in {"attack", "defend", "heal", "special"}
       /\ ~AnswerVerbKnown
            => /\ epResult.value.f.action.s = "attack"
               /\ epResult.value.f.target = [t |-> "num", n |-> 0]
       /\ AnswerVerbKnown => epResult.value = jsonResult.value

C4_Witness ==
  /\ gwPc = "done" /\ entry = "decideCombatAction"
  /\ jsonResult.state = "resolved"
  /\ jsonResult.value.t = "obj"
  /\ "action" \in DOMAIN jsonResult.value.f
  /\ jsonResult.value.f.action.s = "flee"
  /\ epResult.value.f.action.s = "attack"

\* C6: a backend that fails on the first two attempts and answers the third
\* is called exactly 3 times and generate returns that answer; an attempt is
\* started only after every earlier attempt has failed (at most one request
\* of the call is in flight).
C6_RetryThenSucceed ==
  /\ inFlight \in {0, 1}
  /\ (gwPc = "fetch") = (inFlight = 1)
  /\ gwPc = "fetch" => (Len(fetchLog) = attempt /\ AllFailed)
  /\ (Len(fetchLog) = 2 /\ AllFailed /\ maxRetries >= 3)
       => gwPc \in {"backoff", "fetch"}
  /\ (GenerateOver /\ Len(fetchLog) >= 3
        /\ IsFailure(fetchLog[1]) /\ IsFailure(fetchLog[2])
        /\ ~IsFailure(fetchLog[3]))
       => /\ Len(fetchLog) = 3
          /\ genResult = [state |-> "resolved", value |-> fetchLog[3]]

C6_Witness ==
  /\ GenerateOver /\ Len(fetchLog) = 3
  /\ IsFailure(fetchLog[1]) /\ IsFailure(fetchLog[2])
  /\ fetchLog[3] = "{'action':'defend','target':0,'reasoning':'r'}"
  /\ genResult.state = "resolved"

\* C7: when every attempt fails the backend is called exactly maxRetries
\* times (3 when the option is absent), failed attempt k is followed by a
\* wait of 1000 * 2^k ms only when another attempt remains, and the call
\* fails with an error carrying the message of the last failure.
ExpectedMessage(kind) ==
  CASE kind = "network" -> "Failed to fetch"
    [] kind = "timeout" -> "The operation was aborted"
    [] kind = "http" -> "API error: 500"

C7_ExhaustedRetries ==
  /\ maxRetriesOpt = 0 => maxRetries = 3
  /\ maxRetriesOpt # 0 => maxRetries = maxRetriesOpt
  /\ Len(waits) <= Len(fetchLog)
  /\ \A k \in 1..Len(waits) : waits[k] = 1000 * 2 ^ (k - 1) /\ k < maxRetries
  /\ (GenerateOver /\ Len(fetchLog) > 0 /\ AllFailed)
       => /\ Len(fetchLog) = maxRetries
          /\ Len(waits) = maxRetries - 1
          /\ genResult.state = "rejected"
          /\ genResult.error.attempts = maxRetries
          /\ genResult.error.cause = ExpectedMessage(fetchLog[maxRetries])

C7_Witness ==
  /\ GenerateOver /\ maxRetriesOpt = 0
  /\ fetchLog = <<"network", "http", "timeout">>
  /\ waits = <<1000, 2000>>
  /\ genResult.state = "rejected"
  /\ genResult.error.cause = "The operation was aborted"

\* C8: when the backend answers with a text that is not valid JSON,
\* generateJSON fails with an error and that answer was the last request of
\* the call (exactly one request when the first attempt is answered): no
\* retry and no repair of malformed JSON.
NonJSONTexts == {"I attack the goblin!", ""}

EntryPointsNeverReject == gwPc = "done" => epResult.state = "resolved"

(***************************************************************************)
(* Properties of CombatSystem.runCombat (specification SpecCombat)         *)
(***************************************************************************)
ActionExecuted ==
  \/ turn' # turn
  \/ agentActionCount' # agentActionCount
  \/ enemyActionCount' # enemyActionCount

\* C9: runCombat starts a turn, and executes an agent or enemy action, only
\* in a state where at least one agent and at least one enemy are alive;
\* when it returns after starting with a living member on each side, exactly
\* one side has no living member and victory is true iff some agent is alive.
C9_TurnsOnlyWhileBothSidesAlive ==
  /\ [][ActionExecuted => (SomeAlive(agents) /\ SomeAlive(enemies))]_vars
  /\ []((cbPc = "returned" /\ startedAlive)
          => /\ SomeAlive(agents) # SomeAlive(enemies)
             /\ cbResult.state = "resolved"
             /\ cbResult.value.victory = SomeAlive(agents))

C9_Witness ==
  /\ cbPc = "returned" /\ startedAlive
  /\ agentActionCount > 0 /\ enemyActionCount > 0
  /\ ~cbResult.value.victory
  /\ SomeAlive(enemies)

\* The roster of the termination scenario: one agent (hp 100, attack 10),
\* one enemy (hp 10, attack 0), every Math.random() roll 0.
TerminationScenario ==
  /\ cbPc # "idle" /\ stubRandom
  /\ Len(agents) = 1 /\ agents[1].maxHp = Pts(100) /\ agents[1].attack = 10
  /\ Len(enemies) = 1 /\ enemies[1].maxHp = Pts(10) /\ enemies[1].attack = 0

\* C10 as stated: in the termination scenario the loop is over, with the
\* enemy dead and the agent alive, by the second agent action at the latest.
C10_EndsWithinTwoActions ==
  (TerminationScenario /\ agentActionCount >= 2)
    => /\ agentActionCount = 2
       /\ ~SomeAlive(enemies)
       /\ SomeAlive(agents)

\* C10, amended: in the termination scenario the agent never loses hp and
\* runCombat can return only with victory = true, right after an attack or
\* special that was judged successful and brought the enemy to 0 hp; the
\* number of agent actions before that is not bounded, and while every
\* Gateway call fails no action hits (the fallback judgement misses on a
\* roll of 0), so runCombat does not return.
C10_EndsOnlyAtKillingBlow ==
  TerminationScenario
    => /\ agents[1].hp = Pts(100)
       /\ cbPc = "returned"
            => /\ cbResult.value.victory
               /\ agentActionCount >= 1
               /\ ~SomeAlive(enemies)
       /\ ~SomeAlive(enemies)
            => /\ lastTurn.actorType = "agent"
               /\ lastTurn.action \in {"attack", "special"}
               /\ lastTurn.damage > 0
       /\ llmDown
            => /\ cbPc # "returned"
               /\ SomeAlive(enemies)
               /\ agentActionCount > 0 => lastTurn.damage = 0

C10_Witness ==
  /\ TerminationScenario
  /\ cbPc = "returned"
  /\ agentActionCount = 3
  /\ cbResult.value.victory

\* C1: every Decision-layer entry point the turn resolution calls resolves
\* for every Gateway outcome, and no failure caused by what the model
\* answered propagates into runCombat: runCombat does not reject.
C1_NoLLMFailureReachesRunCombat ==
  /\ \A r \in GatewayOutcomes(CombatDecisionTexts) :
       DecideCombatAction(r).state = "resolved"
  /\ \A r \in GatewayOutcomes(CombatJudgeTexts), roll1 \in Rolls, roll2 \in Rolls :
       JudgeCombatAction("A", "attack", roll1, roll2, r).state = "resolved"
  /\ cbPc # "rejected"

(***************************************************************************)
(* Properties of the event flow (specifications SpecEvent, SpecEventLive)  *)
(***************************************************************************)
\* The Gateway call of judgeEvent failed, or its answer carries no results
\* array or an empty one.
FailedOrNoResults(answer) ==
  \/ answer.state = "rejected"
  \/ /\ answer.state = "resolved"
     /\ answer.value.t = "obj"
     /\ \/ "results" \notin DOMAIN answer.value.f
        \/ answer.value.f.results = [t |-> "arr", a |-> <<>>]

IsNeutralResultFor(result, action) ==
  /\ result.t = "obj"
  /\ DOMAIN result.f = {"name", "outcome", "statChange", "feedback"}
  /\ result.f.name = action.name
  /\ result.f.outcome = [t |-> "str", s |-> "neutral"]
  /\ result.f.statChange =
       [t |-> "obj", f |-> [hp |-> [t |-> "num", n |-> 0],
                            attack |-> [t |-> "num", n |-> 0],
                            mind |-> [t |-> "num", n |-> 0]]]

JudgedWithFallback(task) ==
  /\ task.kind = "submit" /\ task.pc = "summary"
  /\ FailedOrNoResults(task.answer)

SameStats(a, b) ==
  /\ a.hp = b.hp /\ a.attack = b.attack /\ a.mind = b.mind /\ a.trauma = b.trauma
  /\ a.nan = b.nan

\* C5: when the Gateway fails or the answer has a missing or empty results
\* array, judgeEvent returns one result per submitted agent action, in the
\* same order and with the same name, each neutral with an all-zero
\* statChange and no trauma; the applyResults call made with it leaves the
\* hp, attack, mind and trauma of every agent unchanged.
C5_NeutralFallbackChangesNothing ==
  /\ [](\A i \in 1..Len(tasks) :
          JudgedWithFallback(tasks[i])
            => LET results == tasks[i].judgement.f.results
                   submitted == tasks[i].agentActions
               IN  /\ results.t = "arr"
                   /\ Len(results.a) = Len(submitted)
                   /\ \A k \in 1..Len(submitted) :
                        IsNeutralResultFor(results.a[k], submitted[k]))
  /\ [][\A i \in 1..Len(tasks) :
          (/\ JudgedWithFallback(tasks[i])
           /\ Len(tasks') = Len(tasks)
           /\ tasks'[i].pc # "summary")
            => /\ tasks'[i].pc = "continuing"
               /\ Len(agents') = Len(agents)
               /\ \A a \in 1..Len(agents) : SameStats(agents'[a], agents[a])]_vars

C5_Witness ==
  \E i \in 1..Len(tasks) :
    /\ tasks[i].kind = "submit" /\ tasks[i].pc = "continuing"
    /\ tasks[i].answer.state = "resolved"
    /\ tasks[i].answer.value.t = "obj"
    /\ "results" \in DOMAIN tasks[i].answer.value.f
    /\ tasks[i].answer.value.f.results = [t |-> "arr", a |-> <<>>]
    /\ Len(agents) = 2
    /\ eventsCleared = 1

\* The doctrine resolution for event n is in progress.
Resolving(n) ==
  \E i \in 1..Len(tasks) :
    /\ tasks[i].kind = "submit"
    /\ \/ /\ tasks[i].pc = "announce"
          /\ Truthy(currentEvent)
          /\ eventCount = n
       \/ /\ tasks[i].pc \in {"deciding", "judging", "summary", "continuing"}
          /\ tasks[i].number = n

\* C2: when every Gateway call fails, a doctrine resolution that is under
\* way for an event (below the last event followed) runs to its end, the
\* event is cleared, and the game reaches the doctrine prompt of a later
\* event or GameOver.
C2_NoStallWhenGatewayDown ==
  \A n \in 1..(MaxEvents - 1) :
    (llmDown /\ Resolving(n))
      ~> (eventsCleared >= n /\ (gameOverShown \/ promptedFor > n))

C2_Witness ==
  /\ llmDown
  /\ eventsCleared = 1
  /\ promptedFor = 2
  /\ inputEnabled
  /\ tasks = <<>>

(***************************************************************************)
(* Properties of the stats of the agents                                   *)
(***************************************************************************)
StatsInRange(a) ==
  /\ a.nan = {}
  /\ 0 <= a.hp /\ a.hp <= a.maxHp
  /\ a.attack >= 1
  /\ a.mind >= 1

\* C11: in every reachable state of the game every agent has
\* 0 <= hp <= maxHp, attack >= 1 and mind >= 1.
C11_AgentStatsStayInRange ==
  \A i \in 1..Len(agents) : StatsInRange(agents[i])


(***************************************************************************)
(* Direct calls on one Agent or one Enemy: the subject is the only member  *)
(* of agents (or of enemies); nothing else of the program runs.            *)
(***************************************************************************)
\* What a direct call on the subject leaves alone.
turnVars == <<cbPc, turn, startedAlive, aliveAgents, pending, actions, idx, cur,
              aliveEnemies, agentTargets, lastTurn, agentActionCount,
              enemyActionCount, cbResult>>
callFrame == <<gwVars, epVars, envVars, turnVars, evVars, picks>>

\* Agents a game can hold: hp anywhere in [0, maxHp] (halves come from a
\* judged damage of x.5), defending or not, with or without a trauma.
AgentSubjects ==
  { [Agent("A", 100, 100, 5, 5) EXCEPT !.hp = h, !.isDefending = d, !.trauma = t] :
      h \in {0, 1, Pts(50), Pts(100)}, d \in BOOLEAN, t \in {<<>>, <<JStr("x")>>} }

EnemySubjects ==
  { [Enemy("E", 10, 3) EXCEPT !.hp = h, !.isDefending = d] :
      h \in {0, 1, Pts(10)}, d \in BOOLEAN }

\* Arguments of the calls (damage and heal amounts in half points).
DamageAmounts == {0, 1, 2, 3, 6, 7, Pts(50), Pts(1000)}
HealAmounts == {0, 1, Pts(5), Pts(50), Pts(1000)}
StatChanges ==
  { JObj(<<>>),
    JObj([hp |-> JNum(0 - 1000)]),
    JObj([hp |-> JNum(1000)]),
    JObj([hp |-> JNum(10)]),
    JObj([mind |-> JNum(0 - 100)]),
    JObj([attack |-> JNum(0 - 1)]),
    JObj([hp |-> JNum(0 - 3), mind |-> JNum(1)]),
    JObj([attack |-> JNum(2), mind |-> JNum(0)]) }
Traumas == {JStr("x"), JStr("y"), JStr("z")}

\* results arguments of applyResults: judged results for A (or for a name
\* that is not in the party), with or without a trauma.
JudgedResult(name, statChange, trauma) ==
  JObj([name |-> JStr(name), outcome |-> JStr("bad"), statChange |-> statChange,
        trauma |-> trauma, feedback |-> JStr("f")])
ResultLists ==
  LET rx == JudgedResult("A", JObj(<<>>), JStr("x"))
      ry == JudgedResult("A", JObj([hp |-> JNum(0 - 3)]), JStr("y"))
      rn == JObj([name |-> JStr("A"), outcome |-> JStr("good"),
                  statChange |-> JObj([mind |-> JNum(1)]), feedback |-> JStr("f")])
      rz == JudgedResult("Z", JObj(<<>>), JStr("z"))
  IN  { <<>>, <<rx>>, <<rn>>, <<rz>>, <<rx, rx>>, <<ry, rx>>, <<rx, ry, rx>>,
        <<rz, ry, rn>> }

AgentInit ==
  /\ GatewayIdle
  /\ EventIdle
  /\ llmDown = FALSE
  /\ stubRandom = FALSE
  /\ combatsWon = 0
  /\ instance = 1
  /\ \/ agents \in {<<a>> : a \in AgentSubjects} /\ enemies = <<>>
     \/ agents = <<>> /\ enemies \in {<<e>> : e \in EnemySubjects}
  /\ cbPc = "direct"
  /\ turn = 0
  /\ startedAlive = FALSE
  /\ aliveAgents = <<>>
  /\ pending = {}
  /\ actions = <<>>
  /\ idx = 0
  /\ cur = [verb |-> "none"]
  /\ aliveEnemies = <<>>
  /\ agentTargets = <<>>
  /\ lastTurn = [actorType |-> "none"]
  /\ agentActionCount = 0
  /\ enemyActionCount = 0
  /\ cbResult = Pending

\* The record of one call: the method, the subject before the call, the
\* argument and what the call returned.
DirectCall(op, before, arg, returned) ==
  [op |-> op, before |-> before, arg |-> arg, returned |-> returned]

CanCall == cbPc = "direct" /\ calls < MaxCalls

\* agent.takeDamage(amount) / enemy.takeDamage(amount)
CallTakeDamage ==
  /\ CanCall
  /\ \E amount \in DamageAmounts :
       \/ /\ Len(agents) = 1
          /\ agents' = <<TakeDamage(agents[1], amount)>>
          /\ lastCall' = DirectCall("takeDamage", agents[1], amount,
                                    ActualDamage(agents[1], amount))
          /\ UNCHANGED enemies
       \/ /\ Len(enemies) = 1
          /\ enemies' = <<TakeDamage(enemies[1], amount)>>
          /\ lastCall' = DirectCall("takeDamage", enemies[1], amount,
                                    ActualDamage(enemies[1], amount))
          /\ UNCHANGED agents
  /\ calls' = calls + 1
  /\ UNCHANGED callFrame

\* agent.heal(amount)
CallHeal ==
  /\ CanCall
  /\ Len(agents) = 1
  /\ \E amount \in HealAmounts :
       /\ agents' = <<Heal(agents[1], amount)>>
       /\ lastCall' = DirectCall("heal", agents[1], amount,
                                 ActualHeal(agents[1], amount))
  /\ calls' = calls + 1
  /\ UNCHANGED <<enemies, callFrame>>

\* agent.defend() / enemy.defend()
CallDefend ==
  /\ CanCall
  /\ \/ /\ Len(agents) = 1
        /\ agents' = <<Defend(agents[1])>>
        /\ lastCall' = DirectCall("defend", agents[1], 0, 0)
        /\ UNCHANGED enemies
     \/ /\ Len(enemies) = 1
        /\ enemies' = <<Defend(enemies[1])>>
        /\ lastCall' = DirectCall("defend", enemies[1], 0, 0)
        /\ UNCHANGED agents
  /\ calls' = calls + 1
  /\ UNCHANGED callFrame

\* agent.resetDefense()
CallResetDefense ==
  /\ CanCall
  /\ Len(agents) = 1
  /\ agents' = <<ResetDefense(agents[1])>>
  /\ lastCall' = DirectCall("resetDefense", agents[1], 0, 0)
  /\ calls' = calls + 1
  /\ UNCHANGED <<enemies, callFrame>>

\* agent.modifyStats(changes)
CallModifyStats ==
  /\ CanCall
  /\ Len(agents) = 1
  /\ \E changes \in StatChanges :
       /\ agents' = <<ModifyStats(agents[1], changes)>>
       /\ lastCall' = DirectCall("modifyStats", agents[1], changes, 0)
  /\ calls' = calls + 1
  /\ UNCHANGED <<enemies, callFrame>>

\* agent.addTrauma(trauma)
CallAddTrauma ==
  /\ CanCall
  /\ Len(agents) = 1
  /\ \E trauma \in Traumas :
       /\ agents' = <<AddTrauma(agents[1], trauma)>>
       /\ lastCall' = DirectCall("addTrauma", agents[1], trauma, 0)
  /\ calls' = calls + 1
  /\ UNCHANGED <<enemies, callFrame>>

\* EventJudge.applyResults([agent], results)
CallApplyResults ==
  /\ CanCall
  /\ Len(agents) = 1
  /\ \E results \in ResultLists :
       LET out == ApplyResults(agents, JArr(results))
       IN  /\ agents' = out.roster
           /\ lastCall' = DirectCall("applyResults", agents[1], results, out.thrown)
  /\ calls' = calls + 1
  /\ UNCHANGED <<enemies, callFrame>>

AgentNext ==
  \/ CallApplyResults
  \/ CallTakeDamage
  \/ CallHeal
  \/ CallDefend
  \/ CallResetDefense
  \/ CallModifyStats
  \/ CallAddTrauma

SpecAgent == AgentInit /\ [][AgentNext]_vars


(***************************************************************************)
(* Properties of the direct calls                                          *)
(***************************************************************************)
\* The Agent or Enemy the calls are made on.
Subject == IF Len(agents) = 1 THEN agents[1] ELSE enemies[1]

\* floor(amount * 0.5) of an amount given in half points, in half points:
\* the largest whole number of points that is at most half the amount.
FloorOfHalf(amount) ==
  Pts(CHOOSE n \in 0..amount : 4 * n <= amount /\ amount < 4 * (n + 1))

\* C12: for every agent or enemy and every amount >= 0, takeDamage(amount)
\* applies and returns floor(amount * 0.5) when the subject is defending and
\* exactly amount otherwise; afterwards hp = max(0, old hp - applied) and
\* isDefending is false.
C12_TakeDamageHalvesWhenDefending ==
  lastCall.op = "takeDamage" =>
    LET old == lastCall.before
        applied == IF old.isDefending THEN FloorOfHalf(lastCall.arg)
                   ELSE lastCall.arg
    IN  /\ lastCall.returned = applied
        /\ Subject.hp = (IF old.hp - applied > 0 THEN old.hp - applied ELSE 0)
        /\ Subject.isDefending = FALSE

\* A defending enemy with 10 hp is hit for 3.5 and loses 1.
C12_Witness ==
  /\ lastCall.op = "takeDamage"
  /\ Len(enemies) = 1
  /\ lastCall.before.isDefending
  /\ lastCall.before.hp = Pts(10)
  /\ lastCall.arg = 7
  /\ lastCall.returned = Pts(1)
  /\ enemies[1].hp = Pts(9)


\* Direct calls on one subject, or one run of runCombat.
AgentCombatInit == AgentInit \/ CombatInit
AgentCombatNext == AgentNext \/ CombatNext
SpecAgentCombat == AgentCombatInit /\ [][AgentCombatNext]_vars

\* heal(amount) was called last: hp is min(maxHp, old hp + amount), at most
\* maxHp, and the call returned the increase of hp.
HealCallExact ==
  lastCall.op = "heal" =>
    LET old == lastCall.before
        sum == old.hp + lastCall.arg
    IN  /\ Subject.hp = (IF sum <= old.maxHp THEN sum ELSE old.maxHp)
        /\ Subject.hp <= Subject.maxHp
        /\ lastCall.returned = Subject.hp - old.hp

\* This step of runCombat is a heal turn that found its target.
HealTurnStep ==
  /\ cbPc = "acting"
  /\ agentActionCount' = agentActionCount + 1
  /\ lastTurn'.action = "heal"
  /\ lastTurn'.target # ""

\* The heal turn is logged with minus the hp its target gained, the target
\* ends at most at maxHp and nobody else's hp changes.
HealTurnLogged ==
  HealTurnStep =>
    \E i \in 1..Len(agents) :
      /\ agents[i].name = lastTurn'.target
      /\ lastTurn'.damage = 0 - (agents'[i].hp - agents[i].hp)
      /\ agents'[i].hp <= agents'[i].maxHp
      /\ \A j \in (1..Len(agents)) \ {i} : agents'[j].hp = agents[j].hp

\* C13: heal(amount) sets hp to min(maxHp, hp + amount), never above maxHp,
\* and returns the actual increase; in combat the heal turn is logged with
\* damage equal to minus that actual increase.
C13_HealCapsAtMaxHp == []HealCallExact /\ [][HealTurnLogged]_vars

\* In combat A (5 of 6 hp, mind 3) heals itself: asked for 3, it gains 1 and
\* the turn is logged with damage -1.
C13_Witness ==
  /\ cbPc \in {"acting", "agentsDone"}
  /\ lastTurn.actorType = "agent"
  /\ lastTurn.action = "heal"
  /\ lastTurn.actor = "A"
  /\ lastTurn.target = "A"
  /\ lastTurn.damage = 0 - Pts(1)
  /\ agents[1].hp = agents[1].maxHp


\* v clamped into [lo, hi]
Clamped(v, lo, hi) == IF v < lo THEN lo ELSE IF v > hi THEN hi ELSE v

\* v raised to at least lo
AtLeast(v, lo) == IF v < lo THEN lo ELSE v

\* C14: for every agent and every integer delta, modifyStats clamps the
\* result: hp stays within [0, maxHp], attack and mind stay at least 1
\* (mind -100 gives mind 1, hp -1000 gives hp 0); a stat whose key is absent
\* from the change object is left unchanged.
C14_ModifyStatsClamps ==
  lastCall.op = "modifyStats" =>
    LET old == lastCall.before
        changes == lastCall.arg.f
    IN  /\ Subject.nan = {}
        /\ Subject.hp = (IF "hp" \in DOMAIN changes
                         THEN Clamped(old.hp + Pts(changes.hp.n), 0, old.maxHp)
                         ELSE old.hp)
        /\ Subject.attack = (IF "attack" \in DOMAIN changes
                             THEN AtLeast(old.attack + changes.attack.n, 1)
                             ELSE old.attack)
        /\ Subject.mind = (IF "mind" \in DOMAIN changes
                           THEN AtLeast(old.mind + changes.mind.n, 1)
                           ELSE old.mind)
        /\ 0 <= Subject.hp /\ Subject.hp <= Subject.maxHp
        /\ Subject.attack >= 1 /\ Subject.mind >= 1

\* modifyStats({mind: -100}) on an agent with mind 5 and 50 hp: mind is 1,
\* hp and attack are what they were.
C14_Witness ==
  /\ lastCall.op = "modifyStats"
  /\ lastCall.arg = JObj([mind |-> JNum(0 - 100)])
  /\ lastCall.before.mind = 5
  /\ lastCall.before.hp = Pts(50)
  /\ Subject.mind = 1
  /\ Subject.hp = Pts(50)
  /\ Subject.attack = lastCall.before.attack


\* The traumas the last call handed to addTrauma, in the order of the calls:
\* the argument of addTrauma, or the trauma of every result of applyResults
\* that names the subject and carries one.
TraumasAdded ==
  CASE lastCall.op = "addTrauma" -> <<lastCall.arg>>
    [] lastCall.op = "applyResults" ->
         LET mine == SelectSeq(lastCall.arg,
                       LAMBDA r : /\ Field(r, "name") = JStr(lastCall.before.name)
                                  /\ Field(r, "trauma").t = "str")
         IN  [i \in 1..Len(mine) |-> Field(mine[i], "trauma")]
    [] OTHER -> <<>>

Elements(seq) == {seq[i] : i \in 1..Len(seq)}
FirstIndexOf(seq, v) == CHOOSE i \in 1..Len(seq) : seq[i] = v /\ \A j \in 1..(i - 1) : seq[j] # v

\* C15: after any sequence of addTrauma calls, made directly or through
\* applyResults, the trauma list holds each added string exactly once, in
\* the order of first addition, and never loses an entry; addTrauma(x)
\* called twice yields one x.
C15_TraumaAddedOnceInOrder ==
  Len(agents) = 1 /\ lastCall.op # "none" =>
    LET old == lastCall.before.trauma
        now == agents[1].trauma
        added == TraumasAdded
    IN  /\ Len(now) >= Len(old)
        /\ \A i \in 1..Len(old) : now[i] = old[i]
        /\ Elements(now) = Elements(old) \cup Elements(added)
        /\ \A i, j \in 1..Len(now) : i # j => now[i] # now[j]
        /\ \A i, j \in (Len(old) + 1)..Len(now) :
             i < j => FirstIndexOf(added, now[i]) < FirstIndexOf(added, now[j])

\* The third call on an agent is applyResults with results carrying x, y, x
\* while the agent holds y: x is added once, behind y.
C15_Witness ==
  /\ Len(agents) = 1
  /\ calls = 3
  /\ lastCall.op = "applyResults"
  /\ Len(lastCall.arg) = 3
  /\ lastCall.before.trauma = <<JStr("y")>>
  /\ agents[1].trauma = <<JStr("y"), JStr("x")>>


(***************************************************************************)
(* Properties of the agent phase                                           *)
(***************************************************************************)
\* Names of the agents agentPhase found alive.
AliveNames == {agents[aliveAgents[k]].name : k \in 1..Len(aliveAgents)}

\* While actions are executed no decision request is outstanding and every
\* living agent has its action in the map.
DecisionsBeforeActions ==
  cbPc \in {"acting", "judging"} =>
    /\ pending = {}
    /\ AliveNames \subseteq DOMAIN actions
    /\ idx \in 1..Len(aliveAgents)
    /\ cbPc = "judging" => cur.agent = aliveAgents[idx]

\* Actions are executed one at a time, in roster order: the action that
\* ends is the one of the idx-th living agent and the next to begin is the
\* one of the agent behind it; an action that awaits its judgement ends
\* before anything else of the turn happens.
OneActionAtATime ==
  /\ agentActionCount' = agentActionCount + 1 =>
       /\ cbPc \in {"acting", "judging"}
       /\ lastTurn'.actor = agents[aliveAgents[idx]].name
       /\ idx' = idx + 1
       /\ aliveAgents' = aliveAgents
       /\ \A k \in 1..(Len(aliveAgents) - 1) : aliveAgents[k] < aliveAgents[k + 1]
  /\ cbPc = "judging" =>
       /\ cbPc' \in {"acting", "agentsDone", "rejected"}
       /\ cbPc' # "rejected" => agentActionCount' = agentActionCount + 1
  /\ cbPc = "deciding" /\ cbPc' = "acting" => idx' = 1 /\ pending = {}

\* C16: in agentPhase no agent action is executed before the decision
\* request of every living agent has resolved, and the actions are then
\* executed one at a time in roster order, each (its awaited judgement
\* included) ending before the next begins, whatever order the decisions
\* resolve in.
C16_DecisionsThenActionsInOrder ==
  []DecisionsBeforeActions /\ [][OneActionAtATime]_vars

\* Two living agents: the action of the first has ended and the attack of
\* the second is awaiting its judgement.
C16_Witness ==
  /\ cbPc = "judging"
  /\ Len(aliveAgents) = 2
  /\ idx = 2
  /\ cur.agent = aliveAgents[2]
  /\ lastTurn.actorType = "agent"
  /\ lastTurn.actor = agents[aliveAgents[1]].name
  /\ pending = {}


(***************************************************************************)
(* Properties of the two batches                                           *)
(***************************************************************************)
\* One run of runCombat, or one run of the scene.
BatchInit == CombatInit \/ EventInit
BatchNext == CombatNext \/ EventNext
SpecBatch == BatchInit /\ [][BatchNext]_vars

LivingNames == {agents[i].name : i \in {j \in 1..Len(agents) : IsAlive(agents[j])}}
NamesAt(indices) == {agents[i].name : i \in indices}

\* batchCombatActions: while it runs every living agent has either its one
\* call outstanding or its action in the map, and nobody else has either;
\* once it has resolved the keys of the map are the living agents' names.
CombatBatchExact ==
  /\ cbPc \in {"deciding", "acting", "judging"} =>
       /\ AliveNames = LivingNames
       /\ NamesAt(pending) \cup DOMAIN actions = LivingNames
       /\ NamesAt(pending) \cap DOMAIN actions = {}
  /\ cbPc \in {"acting", "judging"} =>
       /\ pending = {}
       /\ DOMAIN actions = LivingNames

\* The submit continuations that are inside batchEventDecisions.
IsDeciding(t) == t.kind = "submit" /\ t.pc = "deciding"
Deciding(list) == {list[i] : i \in {j \in 1..Len(list) : IsDeciding(list[j])}}
KeysOf(decisions) == {decisions[k].name : k \in 1..Len(decisions)}
\* The agents a running batch was called for: call outstanding or decided.
AskedNames(t) == NamesAt(t.waiting) \cup KeysOf(t.decisions)

\* batchEventDecisions: no agent has both a call outstanding and a decision
\* in the Map, and no name is in the Map twice.
EventBatchExact ==
  \A t \in Deciding(tasks) :
    /\ NamesAt(t.waiting) \cap KeysOf(t.decisions) = {}
    /\ Cardinality(KeysOf(t.decisions)) = Len(t.decisions)

\* batchEventDecisions starts with one call for each agent alive at that
\* moment and an empty Map; each call that resolves moves its agent from
\* the outstanding calls to the Map; the agentActions built from the Map it
\* resolved with are those of a batch with no call outstanding.
EventBatchSteps ==
  /\ \A t \in Deciding(tasks') \ Deciding(tasks) :
       \/ /\ t.decisions = <<>>
          /\ NamesAt(t.waiting) = LivingNames
          /\ Cardinality(t.waiting) = Cardinality(LivingNames)
       \/ \E old \in Deciding(tasks) :
            /\ old.number = t.number
            /\ AskedNames(t) = AskedNames(old)
            /\ t.waiting \subseteq old.waiting
            /\ Cardinality(t.waiting) = Cardinality(old.waiting) - 1
            /\ Len(t.decisions) = Len(old.decisions) + 1
  /\ \A i \in 1..Len(tasks') :
       tasks'[i].kind = "submit" /\ tasks'[i].pc = "judging" =>
         \/ tasks'[i] \in {tasks[k] : k \in 1..Len(tasks)}
         \/ \E old \in Deciding(tasks) :
              /\ old.waiting = {}
              /\ Len(tasks'[i].agentActions) = Len(old.decisions)
              /\ \A k \in 1..Len(old.decisions) :
                   tasks'[i].agentActions[k].name = JStr(old.decisions[k].name)

\* batchCombatActions resolves only when no call is outstanding, and its
\* calls resolve one by one.
BatchResolvesLast ==
  /\ cbPc = "deciding" /\ cbPc' = "acting" => pending = {}
  /\ cbPc = "deciding" /\ pending' # pending =>
       /\ pending' \subseteq pending
       /\ Cardinality(pending') = Cardinality(pending) - 1
       /\ Cardinality(DOMAIN actions') = Cardinality(DOMAIN actions) + 1

\* C17: batchEventDecisions and batchCombatActions issue exactly one
\* decision call for each agent alive when they are called and none for a
\* dead one, resolve only after all of those calls have resolved, and return
\* a map whose keys are exactly the names of those living agents, whatever
\* order the calls complete in.
C17_BatchCoversLivingAgents ==
  [](CombatBatchExact /\ EventBatchExact)
    /\ [][BatchResolvesLast /\ EventBatchSteps]_vars

\* The decisions of a party of two resolved B first, A second, and the
\* batch resolved with both: judgeEvent is called with B's action ahead of
\* A's.
C17_Witness ==
  \E i \in 1..Len(tasks) :
    /\ tasks[i].kind = "submit" /\ tasks[i].pc = "judging"
    /\ Len(tasks[i].agentActions) = 2
    /\ tasks[i].agentActions[1].name = JStr("B")
    /\ tasks[i].agentActions[2].name = JStr("A")
    /\ LivingNames = {"A", "B"}


(***************************************************************************)
(* Properties of the enemy phase                                           *)
(***************************************************************************)
\* This step is one enemy's action in enemyPhase.
EnemyActionStep == cbPc = "enemy" /\ enemyActionCount' = enemyActionCount + 1

\* The agent is alive and no living agent has less hp.
WeakestLiving(t) ==
  /\ IsAlive(agents[t])
  /\ \A j \in 1..Len(agents) : IsAlive(agents[j]) => agents[t].hp <= agents[j].hp

\* The enemy acting is alive; below 30% of its maxHp it defends, otherwise
\* its attack lands on an agent that is alive at that moment and has the
\* lowest current hp of the living agents.
EnemyDefendsOrHitsWeakest ==
  EnemyActionStep =>
    LET e == aliveEnemies[idx]
    IN  /\ IsAlive(enemies[e])
        /\ IF 10 * enemies[e].hp < 3 * enemies[e].maxHp
           THEN /\ lastTurn'.action = "defend"
                /\ enemies'[e].isDefending
                /\ agents' = agents
           ELSE /\ lastTurn'.action = "attack"
                /\ \E t \in 1..Len(agents) :
                     /\ agents[t].name = lastTurn'.target
                     /\ WeakestLiving(t)

\* C18: in every enemy phase each living enemy defends if its hp is below
\* 30% of its maxHp, and otherwise its attack is applied to an agent that is
\* alive at the moment of the attack and has the lowest current hp among
\* the living agents.
C18_EnemyTargetsWeakestLivingAgent == [][EnemyDefendsOrHitsWeakest]_vars


(***************************************************************************)
(* Order of the actions of a turn                                          *)
(***************************************************************************)
AgentActionStep == agentActionCount' = agentActionCount + 1

\* Agent actions happen in the agent phase, enemy actions in the enemy
\* phase; the enemy phase is entered from the end of the agent phase only
\* and left towards the loop condition only, and the agent phase of the
\* next turn is entered from the loop condition with the turn counted.
PhasesInOrder ==
  /\ AgentActionStep => cbPc \in {"acting", "judging"} /\ turn' = turn
  /\ EnemyActionStep => cbPc = "enemy" /\ turn' = turn
  /\ cbPc = "enemy" => cbPc' \in {"enemy", "loop"} /\ ~AgentActionStep
  /\ cbPc' = "enemy" => cbPc \in {"agentsDone", "enemy"}
  /\ cbPc' \in {"acting", "judging"} => cbPc \in {"deciding", "acting", "judging"}
  /\ cbPc' = "deciding" /\ cbPc # "deciding" => cbPc = "loop" /\ turn' = turn + 1
  /\ cbPc' = "agentsDone" /\ cbPc # "agentsDone" => cbPc \in {"acting", "judging"}

\* An agent acts only while an enemy is alive, and when its action leaves
\* no enemy alive the agent phase ends and the enemy phase is skipped; an
\* enemy acts only while an agent is alive, and when its action leaves no
\* agent alive the enemy phase ends.
PhasesStopAtLastDeath ==
  /\ AgentActionStep => SomeAlive(enemies)
  /\ AgentActionStep /\ ~SomeAlive(enemies') => cbPc' = "agentsDone"
  /\ cbPc = "agentsDone" /\ ~SomeAlive(enemies) =>
       cbPc' = "loop" /\ ~EnemyActionStep
  /\ EnemyActionStep => SomeAlive(agents) /\ SomeAlive(enemies)
  /\ EnemyActionStep /\ ~SomeAlive(agents') => cbPc' = "loop"
  /\ cbPc = "loop" /\ ~LoopCondition(agents, enemies) =>
       ~AgentActionStep /\ ~EnemyActionStep /\ cbPc' = "returned"

\* C19: within every combat turn all agent actions come before all enemy
\* actions; once the last living enemy dies in the agent phase no further
\* agent acts in that turn and the enemy phase does not run; once the last
\* living agent dies in the enemy phase no further enemy acts.
C19_AgentsThenEnemiesUntilOneSideFalls ==
  [][PhasesInOrder /\ PhasesStopAtLastDeath]_vars

\* The first of two living agents has just killed the last enemy: the agent
\* phase is over although the second agent has not acted.
C19_Witness ==
  /\ cbPc = "agentsDone"
  /\ ~SomeAlive(enemies)
  /\ Len(aliveAgents) = 2
  /\ idx = 2
  /\ lastTurn.actorType = "agent"
  /\ lastTurn.actor = agents[aliveAgents[1]].name
  /\ lastTurn.damage > 0


(***************************************************************************)
(* Direct calls on one EventTemplateSelector                               *)
(***************************************************************************)
\* Two of the {type, difficulty} pools generateEvent asks for, of three
\* templates each.
SelectorPools == {<<"normal", "easy">>, <<"normal", "hard">>}

SelectorInit ==
  /\ GatewayIdle
  /\ EventIdle
  /\ llmDown = FALSE
  /\ stubRandom = FALSE
  /\ combatsWon = 0
  /\ instance = 1
  /\ agents = <<>>
  /\ enemies = <<>>
  /\ cbPc = "selector"
  /\ turn = 0
  /\ startedAlive = FALSE
  /\ aliveAgents = <<>>
  /\ pending = {}
  /\ actions = <<>>
  /\ idx = 0
  /\ cur = [verb |-> "none"]
  /\ aliveEnemies = <<>>
  /\ agentTargets = <<>>
  /\ lastTurn = [actorType |-> "none"]
  /\ agentActionCount = 0
  /\ enemyActionCount = 0
  /\ cbResult = Pending

\* if (unused.length === 0): the call clears usedTemplates before it picks.
PoolExhausted(used, type, difficulty) ==
  Len(Unused(Candidates(type, difficulty), used)) = 0

\* selector.getRandomTemplate(type, difficulty)
CallGetRandomTemplate ==
  /\ cbPc = "selector"
  /\ Len(picks) < MaxPicks
  /\ \E pool \in SelectorPools, roll \in RandomRolls :
       LET sel == GetRandomTemplate(usedTemplates, pool[1], pool[2], roll)
       IN  /\ ~sel.thrown
           /\ usedTemplates' = sel.used
           /\ picks' = Append(picks, [type |-> pool[1], difficulty |-> pool[2],
                                      id |-> sel.value.id,
                                      reset |-> PoolExhausted(usedTemplates,
                                                              pool[1], pool[2])])
           /\ lastCall' = DirectCall("getRandomTemplate", usedTemplates, pool,
                                     sel.value.id)
  /\ calls' = calls + 1
  /\ UNCHANGED <<gwVars, epVars, envVars, agents, cbVars, tasks, timers, callbackSet,
                 inputEnabled, doctrine, currentEvent, eventCount, eventsCleared,
                 eventHistory, gameOverShown, promptedFor, submits>>

SelectorNext == CallGetRandomTemplate

SpecSelector == SelectorInit /\ [][SelectorNext]_vars

\* ids of the templates of a pool
PoolIds(type, difficulty) ==
  {Candidates(type, difficulty)[k].id : k \in 1..Len(Candidates(type, difficulty))}

\* C20: template selection is cycle-without-repeat per pool: over any
\* sequence of getRandomTemplate calls on one selector, with calls for
\* different {type, difficulty} pools interleaved, a template id is not
\* returned a second time for a pool until every other template of that pool
\* has been returned since its previous return.
C20_NoRepeatBeforePoolExhausted ==
  \A i, j \in 1..Len(picks) :
    i < j /\ picks[i].id = picks[j].id =>
      \A other \in PoolIds(picks[i].type, picks[i].difficulty) \ {picks[i].id} :
        \E k \in (i + 1)..(j - 1) : picks[k].id = other


\* No call from the m-th (excluded) to the k-th (excluded) cleared usedTemplates.
NoResetBetween(m, k) == \A r \in (m + 1)..(k - 1) : ~picks[r].reset

\* (amended C20) The selector keeps one used-set for all pools. A template
\* id is returned a second time only if a call in between, or the second
\* call itself, cleared the used-set; a call clears it only when every
\* template of its own pool has been returned since the previous clearing;
\* and the used-set holds exactly the ids returned since the last clearing,
\* the clearing call's own included.
C20_NoRepeatWithoutReset ==
  /\ \A i, j \in 1..Len(picks) :
       i < j /\ picks[i].id = picks[j].id =>
         \E k \in (i + 1)..j : picks[k].reset
  /\ \A k \in 1..Len(picks) :
       /\ picks[k].id \in PoolIds(picks[k].type, picks[k].difficulty)
       /\ picks[k].reset =>
            \A id \in PoolIds(picks[k].type, picks[k].difficulty) :
              \E m \in 1..(k - 1) : picks[m].id = id /\ NoResetBetween(m, k)
  /\ usedTemplates =
       {picks[m].id : m \in {n \in 1..Len(picks) :
                               \A r \in (n + 1)..Len(picks) : ~picks[r].reset}}

\* ruins is returned for normal/hard, then the normal/easy pool is asked
\* four times: the fourth call clears the used-set, and the next call for
\* normal/hard returns ruins again although river and village have not been
\* returned.
C20_Witness ==
  /\ Len(picks) = 6
  /\ picks[1].id = "ruins"
  /\ picks[6].id = "ruins"
  /\ \A k \in 2..5 : picks[k].difficulty = "easy"
  /\ picks[5].reset
  /\ ~picks[6].reset


(***************************************************************************)
(* One pool asked again and again                                          *)
(***************************************************************************)
\* Every {type, difficulty} combination of the signature.
AllPools == {"normal", "combat"} \X {"easy", "medium", "hard"}

\* selector.getRandomTemplate(type, difficulty), always for the pool the
\* first call was made for; a throw is recorded as the call's outcome.
CallSamePool ==
  /\ cbPc = "selector"
  /\ calls < MaxRepeats
  /\ lastCall.op = "getRandomTemplate" => ~lastCall.returned.thrown
  /\ \E pool \in AllPools, roll \in RandomRolls :
       /\ lastCall.op = "getRandomTemplate" => pool = lastCall.arg
       /\ LET sel == GetRandomTemplate(usedTemplates, pool[1], pool[2], roll)
          IN  /\ usedTemplates' = sel.used
              /\ picks' = IF sel.thrown THEN picks
                          ELSE Append(picks,
                                 [type |-> sel.value.type,
                                  difficulty |-> sel.value.difficulty,
                                  id |-> sel.value.id,
                                  reset |-> PoolExhausted(usedTemplates,
                                                          pool[1], pool[2])])
              /\ lastCall' = DirectCall("getRandomTemplate", usedTemplates, pool,
                                        IF sel.thrown
                                        THEN [thrown |-> TRUE, error |-> sel.error]
                                        ELSE [thrown |-> FALSE, value |-> sel.value])
  /\ calls' = calls + 1
  /\ UNCHANGED <<gwVars, epVars, envVars, agents, cbVars, tasks, timers, callbackSet,
                 inputEnabled, doctrine, currentEvent, eventCount, eventsCleared,
                 eventHistory, gameOverShown, promptedFor, submits>>

SamePoolNext == CallSamePool

SpecSamePool == SelectorInit /\ [][SamePoolNext]_vars

\* C21: for every {type, difficulty} combination, getRandomTemplate called
\* any number of times always terminates and returns a template of that
\* type and difficulty without throwing; called more times than the pool
\* has templates it returns an id it returned before (the used set is
\* reset).
C21_TemplateCyclingNeverThrows ==
  lastCall.op = "getRandomTemplate" =>
    LET pool == lastCall.arg
        size == Cardinality(PoolIds(pool[1], pool[2]))
    IN  /\ ~lastCall.returned.thrown
        /\ lastCall.returned.value.type = pool[1]
        /\ lastCall.returned.value.difficulty = pool[2]
        /\ lastCall.returned.value.id \in PoolIds(pool[1], pool[2])
        /\ Len(picks) = calls
        /\ picks[Len(picks)].id = lastCall.returned.value.id
        /\ calls > size =>
             \E k \in 1..(Len(picks) - 1) : picks[k].id = picks[Len(picks)].id

\* combat/easy has three templates: the fourth call clears the used set
\* and returns one of the three ids returned before.
C21_Witness ==
  /\ lastCall.op = "getRandomTemplate"
  /\ lastCall.arg = <<"combat", "easy">>
  /\ calls = 4
  /\ {picks[k].id : k \in 1..3} = PoolIds("combat", "easy")
  /\ picks[4].reset
  /\ picks[4].id \in {picks[k].id : k \in 1..3}
  /\ usedTemplates = {picks[4].id}


(***************************************************************************)
(* Properties of the event flow                                            *)
(***************************************************************************)
\* The onDoctrineSubmit continuations that are deciding, judging, applying
\* or continuing.
InResolution == {i \in 1..Len(tasks) :
                   /\ tasks[i].kind = "submit"
                   /\ tasks[i].pc \in {"deciding", "judging", "summary", "continuing"}}

\* C22: event resolution follows Generate, AwaitDoctrine, Decide, Judge,
\* ApplyResults, Continue in that order for each event, and each generated
\* event is decided, judged and applied at most once: the doctrine prompt of
\* an event has been shown before the event is decided, at most one
\* doctrine resolution is in progress at any time, and eventsCleared <=
\* eventCount, for every interleaving of doctrine submissions with event
\* generation and message streaming.
C22_OneResolutionPerEventInOrder ==
  /\ \A i \in InResolution : promptedFor >= tasks[i].number
  /\ Cardinality(InResolution) <= 1
  /\ eventsCleared <= eventCount

\* Two resolutions are in progress at once.
TwoResolutions == Cardinality(InResolution) >= 2
\* More events were cleared than generated.
ClearedTwice == eventsCleared > eventCount


\* No agent of the party is alive: results were applied and left nobody
\* standing (every party starts with a living agent).
PartyFell == agents # <<>> /\ ~IsPartyAlive(agents)

\* Once the party has fallen no event is generated and eventCount stays.
NoEventAfterFall ==
  PartyFell => /\ eventCount' = eventCount
               /\ currentEvent' = currentEvent
               /\ PartyFell'

\* The doctrine input is disabled while the party is fallen.
InputOffAfterFall == PartyFell => ~inputEnabled

\* After the fall the scene reaches its game over screen.
GameOverFollowsFall == PartyFell ~> gameOverShown

\* C23: if no agent is alive after results are applied, the next step is
\* GameOver: no further event is generated, eventCount is not incremented
\* again, and the doctrine input stays disabled.
C23_FallenPartyGoesToGameOver ==
  /\ [][NoEventAfterFall]_vars
  /\ []InputOffAfterFall
  /\ GameOverFollowsFall


(***************************************************************************)
(* MainMenuScene: provider selection, connection check, party setup        *)
(* The scene's one chain of handlers is kept as a task record of `tasks`.  *)
(***************************************************************************)
\* A text is the sequence of its characters.
NameChars == {" ", "a"}

TypedTexts == UNION {[1..n -> NameChars] : n \in 0..MaxNameLen}

\* String.prototype.trim()
RECURSIVE TrimStart(_)
TrimStart(text) ==
  IF text # <<>> /\ Head(text) = " " THEN TrimStart(Tail(text)) ELSE text

RECURSIVE TrimEnd(_)
TrimEnd(text) ==
  IF text # <<>> /\ text[Len(text)] = " "
  THEN TrimEnd(SubSeq(text, 1, Len(text) - 1)) ELSE text

Trim(text) == TrimEnd(TrimStart(text))

\* `Agent${i + 1}` for the field of index i (counted from 1 here).
DefaultName(i) == <<"A", "g", "e", "n", "t", CASE i = 1 -> "1" [] i = 2 -> "2" [] OTHER -> "3">>

\* What a field can hold when the start button is pressed: its prefilled
\* value or a typed text.
FieldValues(i) == TypedTexts \cup {DefaultName(i)}

\* input.value.trim() || `Agent${inputFields.indexOf(input) + 1}`
AgentName(value, i) == IF Trim(value) # <<>> THEN Trim(value) ELSE DefaultName(i)

\* What the backend does with the request of checkConnection.
ConnectionAnswers == {"ok", "notOk", "rejects", "timeout"}

\* OllamaClient.checkConnection: false without an API key for Groq, else
\* response.ok, and false when fetch rejects or the 5 s timeout aborts it.
CheckConnection(prov, key, answer) ==
  IF prov # "ollama" /\ ~key THEN FALSE ELSE answer = "ok"

\* Variant: the menu goes on whatever the check says.
ProceedsAlways(isConnected) == TRUE

\* checkConnectionAndProceed: `if (!isConnected) { ...; return; }`
Proceeds(isConnected) == isConnected

\* Agent.createRandom(name, color) with the three Math.random() rolls.
CreateRandom(name, r1, r2, r3) ==
  [Agent(name, 80 + FloorRandom(r1, 40), 80 + FloorRandom(r1, 40),
         3 + FloorRandom(r2, 5), 3 + FloorRandom(r3, 5))
     EXCEPT !.personality = JStr("")]

PersonalityTexts == {"null", "{'personality':'p','flaw':'f','signatureSkill':'k'}"}

\* agent.setPersonality(profile) reads profile.personality.
SetPersonality(agent, profile) ==
  IF ~CanRead(profile) THEN Thrown("TypeError")
  ELSE Returned([agent EXCEPT !.personality = Field(profile, "personality")])

MenuTask(pc) ==
  [kind |-> "menu", pc |-> pc, checked |-> FALSE, connected |-> FALSE, shown |-> FALSE,
   names |-> <<>>, built |-> <<>>, i |-> 0]

AtMenu(pc) == Len(tasks) = 1 /\ tasks[1].kind = "menu" /\ tasks[1].pc = pc

menuFrame == <<maxRetriesOpt, maxRetries, gwPc, attempt, fetchLog, inFlight, waits,
               lastError, genResult, jsonResult, epVars, envVars, cbVars, callVars,
               timers, callbackSet, doctrine, currentEvent, eventCount, eventsCleared,
               usedTemplates, eventHistory, gameOverShown, promptedFor, submits>>

\* MainMenuScene.create has reset the GameState and scheduled initializeGame.
MenuInit ==
  /\ provider \in {"ollama", "groq"}
  /\ apiKey \in BOOLEAN
  /\ maxRetriesOpt = 0
  /\ maxRetries = ConstructorMaxRetries(0)
  /\ gwPc = "unused"
  /\ attempt = 0
  /\ fetchLog = <<>>
  /\ inFlight = 0
  /\ waits = <<>>
  /\ lastError = "none"
  /\ genResult = Pending
  /\ jsonResult = Pending
  /\ entry = "none"
  /\ epArgs = <<>>
  /\ epResult = Pending
  /\ llmDown \in BOOLEAN
  /\ stubRandom = TRUE
  /\ combatsWon = 0
  /\ instance = 1
  /\ agents = <<>>
  /\ CombatIdle
  /\ CallsIdle
  /\ tasks = <<MenuTask("boot")>>
  /\ timers = 0
  /\ callbackSet = FALSE
  /\ inputEnabled = FALSE
  /\ doctrine = "Act with caution and prioritize survival."
  /\ currentEvent = JNull
  /\ eventCount = 0
  /\ eventsCleared = 0
  /\ usedTemplates = {}
  /\ eventHistory = <<>>
  /\ gameOverShown = FALSE
  /\ promptedFor = 0
  /\ submits = 0

\* initializeGame / showProviderSelection: the provider selection in dev
\* mode, else Groq is set and its API key is asked for.
InitializeGame ==
  /\ AtMenu("boot")
  /\ \E isDevMode \in BOOLEAN :
       IF isDevMode
       THEN /\ tasks' = <<[tasks[1] EXCEPT !.pc = "select"]>>
            /\ UNCHANGED provider
       ELSE /\ tasks' = <<[tasks[1] EXCEPT !.pc = "apiKey"]>>
            /\ provider' = "groq"
  /\ UNCHANGED <<apiKey, agents, inputEnabled>>
  /\ UNCHANGED menuFrame

\* The continue button of the provider selection; hasKey: the key field is
\* not blank.
ProviderContinue ==
  /\ AtMenu("select")
  /\ \E selectedProvider \in {"ollama", "groq"}, hasKey \in BOOLEAN :
       IF selectedProvider = "groq" /\ ~hasKey
       THEN UNCHANGED <<provider, apiKey, tasks>>
       ELSE /\ provider' = selectedProvider
            /\ apiKey' = IF selectedProvider = "groq" THEN TRUE ELSE apiKey
            /\ tasks' = <<[tasks[1] EXCEPT !.pc = "checking"]>>
  /\ UNCHANGED <<agents, inputEnabled>>
  /\ UNCHANGED menuFrame

\* The continue button of the Groq API key screen.
ApiKeyContinue ==
  /\ AtMenu("apiKey")
  /\ \E hasKey \in BOOLEAN :
       IF ~hasKey
       THEN UNCHANGED <<provider, apiKey, tasks>>
       ELSE /\ provider' = "groq"
            /\ apiKey' = TRUE
            /\ tasks' = <<[tasks[1] EXCEPT !.pc = "checking"]>>
  /\ UNCHANGED <<agents, inputEnabled>>
  /\ UNCHANGED menuFrame

\* checkConnectionAndProceed after checkConnection has resolved: the
\* messages of a failed check and return, else showAgentNameInput.
ConnectionChecked ==
  /\ AtMenu("checking")
  /\ \E answer \in ConnectionAnswers :
       LET isConnected == CheckConnection(provider, apiKey, answer)
       IN  tasks' = <<[tasks[1] EXCEPT
                         !.checked = TRUE,
                         !.connected = isConnected,
                         !.pc = IF Proceeds(isConnected) THEN "naming" ELSE "refused",
                         !.shown = Proceeds(isConnected)]>>
  /\ UNCHANGED <<provider, apiKey, agents, inputEnabled>>
  /\ UNCHANGED menuFrame

\* The start button: the names are read from the three fields and
\* createParty begins.
StartPressed ==
  /\ AtMenu("naming")
  /\ \E v1 \in FieldValues(1), v2 \in FieldValues(2), v3 \in FieldValues(3) :
       tasks' = <<[tasks[1] EXCEPT
                     !.pc = "creating",
                     !.names = <<AgentName(v1, 1), AgentName(v2, 2), AgentName(v3, 3)>>,
                     !.i = 1]>>
  /\ UNCHANGED <<provider, apiKey, agents, inputEnabled>>
  /\ UNCHANGED menuFrame

\* createParty, one round of its loop: createRandom, generatePersonality,
\* setPersonality, agents.push(agent); the catch block skips the agent.
AgentCreated ==
  /\ AtMenu("creating")
  /\ tasks[1].i <= Len(tasks[1].names)
  /\ \E r \in GatewayOutcomes(PersonalityTexts), r1 \in Rolls, r2 \in Rolls, r3 \in Rolls :
       LET name == tasks[1].names[tasks[1].i]
           personality == GeneratePersonality(name, r)
           agent == SetPersonality(CreateRandom(name, r1, r2, r3), personality.value)
       IN  tasks' = <<[tasks[1] EXCEPT
                         !.i = @ + 1,
                         !.built = IF agent.thrown THEN @ ELSE Append(@, agent.value)]>>
  /\ UNCHANGED <<provider, apiKey, agents, inputEnabled>>
  /\ UNCHANGED menuFrame

\* createParty after its loop: return without a party, else
\* gameState.setAgents(agents) and the timer that starts GamePlayScene.
PartySet ==
  /\ AtMenu("creating")
  /\ tasks[1].i > Len(tasks[1].names)
  /\ IF tasks[1].built = <<>>
     THEN /\ tasks' = <<[tasks[1] EXCEPT !.pc = "noParty"]>>
          /\ UNCHANGED agents
     ELSE /\ tasks' = <<[tasks[1] EXCEPT !.pc = "starting"]>>
          /\ agents' = tasks[1].built
  /\ UNCHANGED <<provider, apiKey, inputEnabled>>
  /\ UNCHANGED menuFrame

\* this.scene.start("GamePlayScene"): the menu stops and
\* GamePlayScene.create begins with a new, enabled ChatInput.
GamePlayStarted ==
  /\ AtMenu("starting")
  /\ tasks' = <<[kind |-> "create", pc |-> "welcome"]>>
  /\ inputEnabled' = TRUE
  /\ UNCHANGED <<provider, apiKey, agents>>
  /\ UNCHANGED menuFrame

MenuNext ==
  \/ InitializeGame
  \/ ProviderContinue
  \/ ApiKeyContinue
  \/ ConnectionChecked
  \/ StartPressed
  \/ AgentCreated
  \/ PartySet
  \/ GamePlayStarted

SpecMenu == MenuInit /\ [][MenuNext]_vars

\* The connection check of this menu has failed.
CheckFailed ==
  /\ Len(tasks) = 1
  /\ tasks[1].kind = "menu"
  /\ tasks[1].checked
  /\ ~tasks[1].connected

GamePlayRunning == \E k \in 1..Len(tasks) : tasks[k].kind # "menu"

\* After a failed check the name input was not shown, no agent exists and
\* the menu sits at the end of checkConnectionAndProceed.
RefusedState ==
  CheckFailed => /\ ~tasks[1].shown
                 /\ tasks[1].pc = "refused"
                 /\ tasks[1].built = <<>>
                 /\ agents = <<>>

\* and nothing happens after it.
RefusedForGood == CheckFailed => UNCHANGED vars

\* C24: if the connection check of the configured backend fails at
\* startup, the game does not proceed: the agent-name input is never shown,
\* no agent is created, GameState.agents stays empty and GamePlayScene is
\* never started.
C24_FailedCheckStopsTheMenu == []RefusedState /\ [][RefusedForGood]_vars

C24_Witness == CheckFailed /\ provider = "ollama" /\ ~GamePlayRunning

\* C25: after party setup no two agents in GameState.agents have the same
\* name, for every combination of names the player can enter.
C25_AgentNamesDistinct ==
  \A i \in 1..Len(agents), j \in 1..Len(agents) :
    agents[i].name = agents[j].name => i = j


(***************************************************************************)
(* Properties of the combat judgement                                      *)
(***************************************************************************)
\* judgeCombatAction has settled on a Gateway call that failed.
CombatJudgedOnFailure ==
  /\ gwPc = "done"
  /\ entry = "judgeCombatAction"
  /\ jsonResult.state = "rejected"

Fallen(agent) == [agent EXCEPT !.hp = 0]

BatchParties ==
  { Duo,
    <<Duo[1], Duo[2], Agent("C", 80, 80, 3, 3)>>,
    <<Duo[1], Fallen(Duo[2]), Agent("C", 80, 80, 3, 3)>> }

\* Variant: only the first agent's call is started by the batch.
StartedByBatchFirstOnly(k) == k = 1

\* aliveAgents.map(async (agent) => ...): every callback runs at once, up to
\* its first await, which is the fetch of its first attempt.
StartedByBatch(k) == TRUE

\* The loop head of generateOllama for one call: one more request, or the
\* throw after the loop.
RequestLoopHead(req, att) ==
  IF MoreAttempts(att, maxRetries)
  THEN [req EXCEPT !.pc = "fetch", !.attempt = att, !.inFlight = @ + 1,
                   !.issued = @ + 1]
  ELSE [req EXCEPT !.pc = "rejected", !.attempt = att]

NewRequest(name) ==
  [kind |-> "request", name |-> name, pc |-> "queued", attempt |-> 0,
   inFlight |-> 0, issued |-> 0, waits |-> <<>>]

BatchRetryInit ==
  /\ provider = "ollama"
  /\ apiKey = FALSE
  /\ maxRetriesOpt \in 0..MaxRetriesOpt
  /\ maxRetries = ConstructorMaxRetries(maxRetriesOpt)
  /\ gwPc = "unused"
  /\ attempt = 0
  /\ fetchLog = <<>>
  /\ inFlight = 0
  /\ waits = <<>>
  /\ lastError = "none"
  /\ genResult = Pending
  /\ jsonResult = Pending
  /\ entry = "none"
  /\ epArgs = <<>>
  /\ epResult = Pending
  /\ llmDown = FALSE
  /\ stubRandom = FALSE
  /\ combatsWon = 0
  /\ instance = 1
  /\ agents \in BatchParties
  /\ CombatIdle
  /\ EventIdle

requestFrame == <<gwVars, epVars, envVars, agents, cbVars, timers, callbackSet,
                  inputEnabled, doctrine, currentEvent, eventCount, eventsCleared,
                  usedTemplates, eventHistory, gameOverShown, promptedFor, submits,
                  picks>>

\* batchCombatActions up to `await Promise.all(promises)`.
CallBatchCombatActions ==
  /\ calls = 0
  /\ tasks = <<>>
  /\ LET alive == AliveIndices(agents)
     IN  tasks' = [k \in 1..Len(alive) |->
                     IF StartedByBatch(k)
                     THEN RequestLoopHead(NewRequest(agents[alive[k]].name), 0)
                     ELSE NewRequest(agents[alive[k]].name)]
  /\ calls' = 1
  /\ lastCall' = [op |-> "batchCombatActions", names |-> LivingNames]
  /\ UNCHANGED requestFrame

\* The request in flight of call k fails: the catch block of its loop.
RequestFails(k) ==
  /\ tasks[k].kind = "request" /\ tasks[k].pc = "fetch"
  /\ LET req == [tasks[k] EXCEPT !.inFlight = @ - 1]
     IN  tasks' = [tasks EXCEPT ![k] =
                     IF ShouldBackoff(req.attempt, maxRetries)
                     THEN [req EXCEPT !.pc = "backoff",
                                      !.waits = Append(@, BackoffDelay(req.attempt))]
                     ELSE RequestLoopHead(req, req.attempt + 1)]
  /\ UNCHANGED <<lastCall, calls, requestFrame>>

\* The backoff timer of call k fires.
RequestBackoffElapsed(k) ==
  /\ tasks[k].kind = "request" /\ tasks[k].pc = "backoff"
  /\ tasks' = [tasks EXCEPT ![k] = RequestLoopHead(tasks[k], tasks[k].attempt + 1)]
  /\ UNCHANGED <<lastCall, calls, requestFrame>>

\* The request in flight of call k is answered.
RequestSucceeds(k) ==
  /\ tasks[k].kind = "request" /\ tasks[k].pc = "fetch"
  /\ tasks' = [tasks EXCEPT ![k] = [@ EXCEPT !.pc = "resolved", !.inFlight = @ - 1]]
  /\ UNCHANGED <<lastCall, calls, requestFrame>>

RequestSettled(req) == req.pc \in {"resolved", "rejected"}

\* Promise.all(promises) resolves: every decideCombatAction has settled
\* (it never rejects) and the Map is returned.
BatchReturns ==
  /\ calls = 1
  /\ \A k \in 1..Len(tasks) : RequestSettled(tasks[k])
  /\ calls' = 2
  /\ UNCHANGED <<lastCall, tasks, requestFrame>>

BatchRetryNext ==
  \/ CallBatchCombatActions
  \/ \E k \in 1..Len(tasks) : RequestFails(k)
  \/ \E k \in 1..Len(tasks) : RequestBackoffElapsed(k)
  \/ \E k \in 1..Len(tasks) : RequestSucceeds(k)
  \/ BatchReturns

SpecBatchRetry == BatchRetryInit /\ [][BatchRetryNext]_vars

\* At most one attempt of a call is in flight, and the attempts of a call
\* were issued one after the other: the one in flight is attempt number
\* `attempt`, issued after the ones before it were answered.
RetriesSequential ==
  \A k \in 1..Len(tasks) :
    /\ tasks[k].inFlight <= 1
    /\ tasks[k].inFlight = 1 <=> tasks[k].pc = "fetch"
    /\ tasks[k].pc \in {"fetch", "backoff", "resolved"} => tasks[k].issued = tasks[k].attempt + 1
    /\ tasks[k].pc = "rejected" => tasks[k].issued = tasks[k].attempt

\* Once the batch is called, the call of every living agent has issued its
\* first request.
AllIssuedAtOnce ==
  calls > 0 =>
    /\ {tasks[k].name : k \in 1..Len(tasks)} = lastCall.names
    /\ \A k \in 1..Len(tasks) : tasks[k].issued >= 1

\* No step of one call changes another call.
OneCallPerStep ==
  calls > 0 =>
    \A k, j \in 1..Len(tasks) :
      (k # j /\ tasks'[k] # tasks[k]) => tasks'[j] = tasks[j]

\* C27: retries of one Gateway request are sequential (at most one attempt
\* of that request in flight at any time), while the requests of the agents
\* of a batch are all issued before any of them is awaited, so that no
\* failure or backoff wait of one agent delays the start of another
\* agent's request.
C27_SequentialRetriesParallelBatch ==
  /\ [](RetriesSequential /\ AllIssuedAtOnce)
  /\ [][OneCallPerStep]_vars

\* One agent is waiting in its second backoff while another agent's first
\* request is still in flight.
C27_Witness ==
  /\ Len(tasks) >= 2
  /\ tasks[1].kind = "request"
  /\ tasks[1].pc = "backoff" /\ tasks[1].attempt = 1
  /\ tasks[2].pc = "fetch" /\ tasks[2].attempt = 0


(***************************************************************************)
(* executeAgentAction called once on one agent facing one enemy            *)
(***************************************************************************)
ActionActors ==
  { [Agent("A", 100, 100, 5, 5) EXCEPT !.hp = h, !.isDefending = d] :
      h \in {Pts(50), Pts(100)}, d \in BOOLEAN }

\* The agent listed before the actor, if any: fallen or hurt.
ActionAllies == {Agent("B", 0, 80, 4, 4), Agent("B", 7, 80, 4, 4)}

ActionInputs ==
  { JObj([action |-> JStr(verb), target |-> target, reasoning |-> JStr("r")]) :
      verb \in {"attack", "special", "defend", "heal"},
      target \in {JNum(0), JStr("self")} }

ActionInit ==
  /\ GatewayIdle
  /\ EventIdle
  /\ llmDown \in BOOLEAN
  /\ stubRandom = FALSE
  /\ combatsWon = 0
  /\ instance = 1
  /\ agents \in {<<a>> : a \in ActionActors}
                \cup {<<ally, a>> : ally \in ActionAllies, a \in ActionActors}
  /\ enemies \in {<<e>> : e \in EnemySubjects}
  /\ cbPc = "direct"
  /\ turn = 0
  /\ startedAlive = FALSE
  /\ aliveAgents = <<>>
  /\ pending = {}
  /\ actions = <<>>
  /\ idx = 0
  /\ cur = [verb |-> "none"]
  /\ aliveEnemies = <<>>
  /\ agentTargets = <<>>
  /\ lastTurn = [actorType |-> "none"]
  /\ agentActionCount = 0
  /\ enemyActionCount = 0
  /\ cbResult = Pending

\* What one executeAgentAction call did: the rosters before it, the action,
\* the judgement it awaited (JUndefined when it asked for none) and the
\* entry it pushed on turnLog (a rejection when it threw).
ActionCall(action, judged, judgement, outcome) ==
  [op |-> "executeAgentAction", agents |-> agents, enemies |-> enemies,
   action |-> action, judged |-> judged, judgement |-> judgement,
   outcome |-> outcome]

\* executeAgentAction(agent, action) for an attack or a special; the actor
\* is the last agent of the roster.
CallExecuteAttack ==
  /\ cbPc = "direct"
  /\ calls = 0
  /\ Len(agents) >= 1 /\ Len(enemies) = 1
  /\ \E action \in ActionInputs :
       LET agent == agents[Len(agents)]
           verb == Field(action, "action").s
           e == GetAliveEnemy(enemies, Field(action, "target"))
       IN  /\ verb \in {"attack", "special"}
           /\ IF e = 0
              THEN /\ lastCall' = ActionCall(action, FALSE, JUndefined,
                                    Returned(TurnEntry(agent.name, verb, "", 0, "agent")))
                   /\ UNCHANGED enemies
              ELSE \E r \in GatewayOutcomes(CombatJudgeTexts), roll1 \in Rolls,
                      roll2 \in Rolls, roll3 \in Rolls :
                     LET p == JudgeCombatAction(agent.name, verb, roll1, roll2, r)
                         base == IF verb = "attack" THEN AttackBaseDamage(agent, roll3)
                                 ELSE SpecialBaseDamage(agent, roll3)
                         hit == AttackResult(enemies[e], base, p.value)
                     IN  IF ~CanRead(p.value)
                         THEN /\ lastCall' = ActionCall(action, TRUE, p.value,
                                                        Thrown(TypeError))
                              /\ UNCHANGED enemies
                         ELSE /\ enemies' = [enemies EXCEPT ![e] = hit.enemy]
                              /\ lastCall' = ActionCall(action, TRUE, p.value,
                                   Returned(TurnEntry(agent.name, verb, enemies[e].name,
                                                      hit.damage, "agent")))
  /\ calls' = calls + 1
  /\ UNCHANGED agents
  /\ UNCHANGED callFrame

\* executeAgentAction(agent, action) for a defend or a heal.
CallExecuteSupport ==
  /\ cbPc = "direct"
  /\ calls = 0
  /\ Len(agents) >= 1 /\ Len(enemies) = 1
  /\ \E action \in ActionInputs :
       LET agent == agents[Len(agents)]
           verb == Field(action, "action").s
           h == HealTarget(agents, Len(agents), Field(action, "target"))
       IN  /\ verb \in {"defend", "heal"}
           /\ IF verb = "defend"
              THEN /\ agents' = [agents EXCEPT ![Len(agents)] = Defend(agent)]
                   /\ lastCall' = ActionCall(action, FALSE, JUndefined,
                                    Returned(TurnEntry(agent.name, verb, "self", 0, "agent")))
              ELSE IF h = 0
              THEN /\ lastCall' = ActionCall(action, FALSE, JUndefined,
                                    Returned(TurnEntry(agent.name, verb, "", 0, "agent")))
                   /\ UNCHANGED agents
              ELSE \E roll \in Rolls :
                     /\ agents' = [agents EXCEPT
                                     ![h] = Heal(agents[h], HealAmount(agent, roll))]
                     /\ lastCall' = ActionCall(action, FALSE, JUndefined,
                          Returned(TurnEntry(agent.name, verb, agents[h].name,
                                     0 - ActualHeal(agents[h], HealAmount(agent, roll)),
                                     "agent")))
  /\ calls' = calls + 1
  /\ UNCHANGED enemies
  /\ UNCHANGED callFrame

ActionNext ==
  \/ CallExecuteAttack
  \/ CallExecuteSupport

SpecAction == ActionInit /\ [][ActionNext]_vars

\* The call was an attack or a special whose judgement said success: false.
JudgedFailure ==
  /\ lastCall.op = "executeAgentAction"
  /\ lastCall.judged
  /\ CanRead(lastCall.judgement)
  /\ Field(lastCall.judgement, "success") = JBool(FALSE)

\* C28: when the judgement of an attack or special action reports
\* success=false, takeDamage is not called: the target enemy's hp and
\* isDefending are unchanged and the turn is logged with damage 0.
C28_FailedAttackLeavesEnemy ==
  JudgedFailure =>
    /\ enemies = lastCall.enemies
    /\ agents = lastCall.agents
    /\ ~lastCall.outcome.thrown
    /\ lastCall.outcome.value.damage = 0
    /\ lastCall.outcome.value.target = lastCall.enemies[1].name

\* A special judged as failed by the backend itself, on a defending enemy.
C28_Witness ==
  /\ JudgedFailure
  /\ lastCall.action.f.action = JStr("special")
  /\ lastCall.judgement.f.narrative = JStr("n")
  /\ enemies[1].isDefending
  /\ enemies[1].hp = Pts(10)


\* SpecAction and SpecCombat side by side: the direct calls and the same
\* actions inside runCombat.
ActionCombatInit == ActionInit \/ CombatInit

ActionCombatNext == ActionNext \/ CombatNext

SpecActionCombat == ActionCombatInit /\ [][ActionCombatNext]_vars

\* Agents i of two rosters differ at most in the named field.
SameBut(before, after, i, field) ==
  /\ Len(after) = Len(before)
  /\ \A j \in 1..Len(before) :
       IF j = i THEN [after[j] EXCEPT ![field] = before[j][field]] = before[j]
       ELSE after[j] = before[j]

\* The direct call was a defend or a heal.
SupportCall(verb) ==
  /\ lastCall.op = "executeAgentAction"
  /\ lastCall.action.f.action = JStr(verb)

\* A direct defend asked for no judgement and changed the actor's flag only.
DefendCallFrame ==
  SupportCall("defend") =>
    /\ ~lastCall.judged
    /\ enemies = lastCall.enemies
    /\ SameBut(lastCall.agents, agents, Len(agents), "isDefending")
    /\ agents[Len(agents)].isDefending

\* A direct heal asked for no judgement and changed the hp of one agent
\* only: the actor or an agent that was alive.
HealCallFrame ==
  SupportCall("heal") =>
    /\ ~lastCall.judged
    /\ enemies = lastCall.enemies
    /\ \E h \in 1..Len(agents) :
         /\ h = Len(agents) \/ IsAlive(lastCall.agents[h])
         /\ SameBut(lastCall.agents, agents, h, "hp")

\* The step of runCombat that executes the running agent's action.
ActingStep(verb) ==
  /\ cbPc = "acting"
  /\ Field(actions[agents[aliveAgents[idx]].name], "action") = JStr(verb)

\* In combat a defend or a heal is over in the step that starts it, without
\* a judgement being awaited, with the same effect as above.
SupportStepFrame ==
  /\ ActingStep("defend") =>
       /\ cbPc' # "judging"
       /\ agentActionCount' = agentActionCount + 1
       /\ enemies' = enemies
       /\ SameBut(agents, agents', aliveAgents[idx], "isDefending")
       /\ agents'[aliveAgents[idx]].isDefending
  /\ ActingStep("heal") =>
       /\ cbPc' # "judging"
       /\ agentActionCount' = agentActionCount + 1
       /\ enemies' = enemies
       /\ \E h \in 1..Len(agents) :
            /\ h = aliveAgents[idx] \/ IsAlive(agents[h])
            /\ SameBut(agents, agents', h, "hp")

\* C29: a defend action makes no judgement (Gateway) call and changes
\* nothing except the acting agent's isDefending flag, which becomes true;
\* a heal action makes no judgement call and changes nothing except the hp
\* of its target, which is the actor or an agent alive at execution time.
C29_DefendAndHealFrames ==
  /\ [](DefendCallFrame /\ HealCallFrame)
  /\ [][SupportStepFrame]_vars

\* A heal with target 0 next to a fallen ally: it reached the actor, the
\* first living agent, and raised the actor's hp.
C29_Witness ==
  /\ SupportCall("heal")
  /\ lastCall.action.f.target = JNum(0)
  /\ Len(agents) = 2
  /\ ~IsAlive(agents[1])
  /\ agents[1] = lastCall.agents[1]
  /\ agents[2].hp > lastCall.agents[2].hp


(***************************************************************************)
(* getWeightedDifficulty called on its own                                 *)
(***************************************************************************)
\* Math.random() in hundredths, every value.
Hundredths == 0..99

\* EventTemplateSelector.getWeightedDifficulty(eventCount)
CallGetWeightedDifficulty ==
  /\ cbPc = "selector"
  /\ calls < MaxCalls
  /\ \E count \in 0..MaxEventCount, rand \in Hundredths :
       lastCall' = [op |-> "getWeightedDifficulty", arg |-> count, rand |-> rand,
                    returned |-> GetWeightedDifficulty(count, rand)]
  /\ calls' = calls + 1
  /\ UNCHANGED <<agents, enemies, callFrame>>

DifficultyNext == CallGetWeightedDifficulty

SpecDifficulty == SelectorInit /\ [][DifficultyNext]_vars

\* The difficulties some roll yields for an event count.
Reachable(count) == {GetWeightedDifficulty(count, rand) : rand \in Hundredths}

\* C30: getWeightedDifficulty follows three bands: eventCount < 3 never
\* returns hard, eventCount >= 6 never returns easy, and for
\* 3 <= eventCount < 6 each of easy, medium and hard is returned for some
\* roll.
C30_DifficultyBands ==
  lastCall.op = "getWeightedDifficulty" =>
    /\ lastCall.returned \in {"easy", "medium", "hard"}
    /\ lastCall.arg < 3 => lastCall.returned # "hard"
    /\ lastCall.arg >= 6 => lastCall.returned # "easy"
    /\ (lastCall.arg >= 3 /\ lastCall.arg < 6) =>
         Reachable(lastCall.arg) = {"easy", "medium", "hard"}

\* The sixth event comes out hard on a high roll.
C30_Witness ==
  /\ lastCall.op = "getWeightedDifficulty"
  /\ lastCall.arg = 5
  /\ lastCall.returned = "hard"
  /\ lastCall.rand = 80


(***************************************************************************)
(* Direct calls on the GameState singleton                                 *)
(***************************************************************************)
\* The members of the GameState, with the history and the used set of its
\* EventGenerator.
GameStateNow ==
  [agents |-> agents, doctrine |-> doctrine, eventCount |-> eventCount,
   eventsCleared |-> eventsCleared, combatsWon |-> combatsWon,
   eventHistory |-> eventHistory, usedTemplates |-> usedTemplates]

\* private constructor(), with new EventGenerator() and its selector
NewGameState ==
  [agents |-> <<>>, doctrine |-> "Act with caution and prioritize survival.",
   eventCount |-> 0, eventsCleared |-> 0, combatsWon |-> 0,
   eventHistory |-> <<>>, usedTemplates |-> {}]

\* getInstance(): if (!GameState.instance) GameState.instance = new GameState()
GetInstance(inst) == IF inst = 0 THEN 1 ELSE inst

\* Variant: clearHistory() leaves the template selector alone.
ResetKeepsUsed(state) ==
  [state EXCEPT !.agents = <<>>,
                !.doctrine = "Act with caution and prioritize survival.",
                !.eventCount = 0, !.eventsCleared = 0, !.combatsWon = 0,
                !.eventHistory = <<>>]

\* reset(), with eventGenerator.clearHistory() and templateSelector.reset()
Reset(state) ==
  [state EXCEPT !.agents = <<>>,
                !.doctrine = "Act with caution and prioritize survival.",
                !.eventCount = 0, !.eventsCleared = 0, !.combatsWon = 0,
                !.eventHistory = <<>>, !.usedTemplates = {}]

\* clearEvent(isCombat)
ClearEvent(state, isCombat) ==
  [state EXCEPT !.eventsCleared = @ + 1,
                !.combatsWon = IF isCombat THEN @ + 1 ELSE @]

SetGameState(state) ==
  /\ agents' = state.agents
  /\ doctrine' = state.doctrine
  /\ eventCount' = state.eventCount
  /\ eventsCleared' = state.eventsCleared
  /\ combatsWon' = state.combatsWon
  /\ eventHistory' = state.eventHistory
  /\ usedTemplates' = state.usedTemplates

\* What a call on the GameState leaves alone.
stateFrame == <<gwVars, epVars, llmDown, stubRandom, enemies, turnVars, tasks, timers,
                callbackSet, inputEnabled, currentEvent, gameOverShown, promptedFor,
                submits, picks>>

\* The module is loaded: no scene has asked for the instance yet, or one has.
GameStateInit ==
  /\ GatewayIdle
  /\ EventIdle
  /\ llmDown = FALSE
  /\ stubRandom = FALSE
  /\ combatsWon = 0
  /\ instance \in {0, 1}
  /\ agents = <<>>
  /\ enemies = <<>>
  /\ cbPc = "selector"
  /\ turn = 0
  /\ startedAlive = FALSE
  /\ aliveAgents = <<>>
  /\ pending = {}
  /\ actions = <<>>
  /\ idx = 0
  /\ cur = [verb |-> "none"]
  /\ aliveEnemies = <<>>
  /\ agentTargets = <<>>
  /\ lastTurn = [actorType |-> "none"]
  /\ agentActionCount = 0
  /\ enemyActionCount = 0
  /\ cbResult = Pending

\* A method of the instance can be called once getInstance has returned it.
CanCallState == cbPc = "selector" /\ calls < MaxCalls /\ instance # 0

StateCall(op, arg, after) ==
  /\ SetGameState(after)
  /\ lastCall' = DirectCall(op, GameStateNow, arg, 0)
  /\ calls' = calls + 1
  /\ UNCHANGED <<instance, stateFrame>>

\* GameState.getInstance()
CallGetInstance ==
  /\ cbPc = "selector" /\ calls < MaxCalls
  /\ instance' = GetInstance(instance)
  /\ SetGameState(IF instance' # instance THEN NewGameState ELSE GameStateNow)
  /\ lastCall' = DirectCall("getInstance", instance, 0, instance')
  /\ calls' = calls + 1
  /\ UNCHANGED stateFrame

\* gameState.reset()
CallReset == CanCallState /\ StateCall("reset", 0, Reset(GameStateNow))

\* gameState.setAgents(agents)
CallSetAgents ==
  /\ CanCallState
  /\ \E roster \in {Solo, Duo} :
       StateCall("setAgents", roster, [GameStateNow EXCEPT !.agents = roster])

\* gameState.setDoctrine(doctrine)
CallSetDoctrine ==
  /\ CanCallState
  /\ \E text \in Doctrines :
       StateCall("setDoctrine", text, [GameStateNow EXCEPT !.doctrine = text])

\* gameState.incrementEvent()
CallIncrementEvent ==
  CanCallState /\ StateCall("incrementEvent", 0, [GameStateNow EXCEPT !.eventCount = @ + 1])

\* gameState.clearEvent(isCombat)
CallClearEvent ==
  /\ CanCallState
  /\ \E isCombat \in BOOLEAN :
       StateCall("clearEvent", isCombat, ClearEvent(GameStateNow, isCombat))

\* gameState.eventGenerator.addSummary(summary)
CallAddSummary ==
  /\ CanCallState
  /\ StateCall("addSummary", "s", [GameStateNow EXCEPT !.eventHistory = Append(@, "s")])

\* the selector of gameState.eventGenerator picks a template
CallStateTemplate == CanCallState /\ CallGetRandomTemplate

GameStateNext ==
  \/ CallGetInstance
  \/ CallReset
  \/ CallSetAgents
  \/ CallSetDoctrine
  \/ CallIncrementEvent
  \/ CallClearEvent
  \/ CallAddSummary
  \/ CallStateTemplate

SpecGameState == GameStateInit /\ [][GameStateNext]_vars

\* getInstance returns the object GameState.instance holds, and that object
\* is never replaced.
SameInstance == instance # 0 => instance' = instance

ReturnsTheInstance == lastCall.op = "getInstance" => lastCall.returned = instance

\* After reset() the members are those of a new GameState.
ResetRestores == lastCall.op = "reset" => GameStateNow = NewGameState

\* Only reset() lowers eventCount.
EventCountGrows == eventCount' < eventCount => lastCall'.op = "reset"

\* C31: GameState.getInstance always returns the same instance, and after
\* reset() the state equals the initial state (agents empty, default
\* doctrine, eventCount = eventsCleared = combatsWon = 0, event history
\* empty, used set of the template selector empty); between resets
\* eventCount never decreases.
C31_SingletonAndReset ==
  /\ [](ReturnsTheInstance /\ ResetRestores)
  /\ [][SameInstance /\ EventCountGrows]_vars

\* reset() is called on a GameState with an event counted and a template used.
C31_Witness ==
  /\ lastCall.op = "reset"
  /\ lastCall.before.eventCount > 0
  /\ lastCall.before.usedTemplates # {}
  /\ instance = 1


(***************************************************************************)
(* SpecTargets: one runCombat call against three enemies                   *)
(***************************************************************************)
\* Two agents against three enemies, each of which falls to one judged
\* attack or special.
TargetRoster ==
  [agents |-> <<Agent("A", 2, 2, 5, 3), Agent("B", 2, 2, 4, 4)>>,
   enemies |-> <<Enemy("E1", 3, 1), Enemy("E2", 3, 1), Enemy("E3", 3, 1)>>,
   stub |-> TRUE]

TargetsInit == CombatStart({TargetRoster})

SpecTargets == TargetsInit /\ [][CombatNext]_vars

\* The enemy the running attack / special was decided for: the one listed
\* at the index of the action in enemyInfo (0: the index names none).
DecidedTarget ==
  LET action == actions[agents[cur.agent].name]
      k == ArrayAt(Len(aliveEnemies), Field(action, "target"))
  IN  IF k = 0 THEN 0 ELSE aliveEnemies[k]

\* C32: an agent's attack or special with target index i is applied to the
\* enemy that was i-th in the living-enemy list presented to the agents when
\* the actions were decided, whenever that enemy is still alive at execution
\* time, even if an earlier action of the phase killed another enemy.
C32_TargetIsTheDecidedEnemy ==
  (cbPc = "judging" /\ DecidedTarget # 0 /\ IsAlive(enemies[DecidedTarget]))
    => cur.target = DecidedTarget

\* The second agent's action is under way for a living enemy after the
\* first agent's action killed another one.
SecondTargetAfterKill ==
  /\ cbPc = "judging"
  /\ idx = 2
  /\ DecidedTarget # 0
  /\ IsAlive(enemies[DecidedTarget])
  /\ Len(AliveIndices(enemies)) < Len(aliveEnemies)


(***************************************************************************)
(* SpecJudged: applyResults called on a party of two                       *)
(***************************************************************************)
\* The parties judged: A and B alive, A hurt or not.
JudgedParties ==
  { Duo, <<Agent("A", 5, 80, 5, 3), Agent("B", 7, 80, 4, 4)>> }

\* judgement.results as judgeEvent can return them: results for A, for B and
\* for a name that is not in the party, a result without statChange.
JudgedLists ==
  LET hurtA == JudgedResult("A", JObj([hp |-> JNum(0 - 3)]), JNull)
      killA == JudgedResult("A", JObj([hp |-> JNum(0 - 200)]), JStr("x"))
      mendA == JudgedResult("A", JObj([hp |-> JNum(10)]), JNull)
      growA == JudgedResult("A", JObj([attack |-> JNum(2)]), JStr("y"))
      dullB == JudgedResult("B", JObj([hp |-> JNum(0 - 3), mind |-> JNum(0 - 100)]),
                            JStr("x"))
      lostZ == JudgedResult("Z", JObj([hp |-> JNum(0 - 5), attack |-> JNum(1)]),
                            JStr("z"))
      bareB == JObj([name |-> JStr("B"), outcome |-> JStr("good"),
                     feedback |-> JStr("f")])
  IN  { <<>>, <<lostZ>>, <<killA>>, <<mendA>>, <<dullB>>, <<growA, lostZ, dullB>>,
        <<hurtA, bareB, growA>> }

JudgedInit ==
  /\ GatewayIdle
  /\ EventIdle
  /\ llmDown = FALSE
  /\ stubRandom = FALSE
  /\ combatsWon = 0
  /\ instance = 1
  /\ agents \in JudgedParties
  /\ enemies = <<>>
  /\ cbPc = "direct"
  /\ turn = 0
  /\ startedAlive = FALSE
  /\ aliveAgents = <<>>
  /\ pending = {}
  /\ actions = <<>>
  /\ idx = 0
  /\ cur = [verb |-> "none"]
  /\ aliveEnemies = <<>>
  /\ agentTargets = <<>>
  /\ lastTurn = [actorType |-> "none"]
  /\ agentActionCount = 0
  /\ enemyActionCount = 0
  /\ cbResult = Pending

\* EventJudge.applyResults(this.gameState.agents, judgement.results)
CallApplyJudgement ==
  /\ CanCall
  /\ \E results \in JudgedLists :
       LET out == ApplyResults(agents, JArr(results))
       IN  /\ agents' = out.roster
           /\ lastCall' = DirectCall("applyResults", agents, results, out.thrown)
  /\ calls' = calls + 1
  /\ UNCHANGED <<enemies, callFrame>>

JudgedNext == CallApplyJudgement

SpecJudged == JudgedInit /\ [][JudgedNext]_vars

\* An agent whose hp is 0 before a step has hp 0 after it.
DeadStaysDead ==
  \A i \in 1..Len(agents) :
    (i <= Len(agents') /\ agents[i].hp = 0) => agents'[i].hp = 0

\* C33: once an agent's hp reaches 0 it stays 0 until GameState.reset: no
\* sequence of event judgements applied through applyResults and no combat
\* action makes a dead agent alive again.
C33_NoRevival == [][DeadStaysDead]_vars

\* A judgement gives hp to an agent that an earlier judgement had killed.
RevivedByJudgement ==
  /\ lastCall.op = "applyResults"
  /\ \E i \in 1..Len(agents) : lastCall.before[i].hp = 0 /\ agents[i].hp > 0


\* Some result of the list carries the name.
NamedBy(results, name) ==
  \E k \in 1..Len(results) : Field(results[k], "name") = JStr(name)

\* The results of the list whose name is the name of an agent of the roster.
ResultsForParty(roster, results) ==
  SelectSeq(results, LAMBDA r : \E i \in 1..Len(roster) :
                                  Field(r, "name") = JStr(roster[i].name))

\* C37: EventJudge.applyResults changes only agents named by a result: a
\* result whose name matches no agent in the roster changes nothing (the
\* roster is what the results naming its agents alone would have made it),
\* each result modifies only the stats and the trauma of the agent with that
\* name, and agents not named in any result are left unchanged.
C37_ApplyResultsFrame ==
  lastCall.op = "applyResults" =>
    LET before == lastCall.before
        results == lastCall.arg
    IN  /\ Len(agents) = Len(before)
        /\ agents = ApplyResults(before, JArr(ResultsForParty(before, results))).roster
        /\ \A i \in 1..Len(before) :
             /\ ~NamedBy(results, before[i].name) => agents[i] = before[i]
             /\ agents[i] = [before[i] EXCEPT !.hp = agents[i].hp,
                                              !.attack = agents[i].attack,
                                              !.mind = agents[i].mind,
                                              !.nan = agents[i].nan,
                                              !.trauma = agents[i].trauma]

\* A list that names A, a stranger and B has been applied and has changed
\* A and B.
C37_Witness ==
  /\ lastCall.op = "applyResults"
  /\ NamedBy(lastCall.arg, "Z")
  /\ Len(lastCall.arg) = 3
  /\ agents[1] # lastCall.before[1]
  /\ agents[2] # lastCall.before[2]


(***************************************************************************)
(* The isDefending flags over a turn                                       *)
(***************************************************************************)
\* No enemy is defending while agentPhase executes the agents' actions.
EnemiesOpen ==
  cbPc \in {"acting", "judging"} =>
    \A e \in 1..Len(enemies) : ~enemies[e].isDefending

\* The enemy about to be hit takes every amount in full.
HitInFull ==
  cbPc = "judging" =>
    \A amount \in DamageAmounts : ActualDamage(enemies[cur.target], amount) = amount

\* The step is an attack of the enemy phase on agent i.
EnemyAttackOn(i) ==
  /\ cbPc = "enemy"
  /\ enemyActionCount' = enemyActionCount + 1
  /\ lastTurn'.action = "attack"
  /\ lastTurn'.target = agents[i].name

\* An attack on an agent uses up its defence, an attack on an agent that
\* is not defending lands in full, and no agent starts defending while the
\* enemies act: of the attacks on one agent in one turn only the first
\* after its defend can be halved.
GuardSpentByAttack ==
  /\ \A i \in 1..Len(agents) :
       EnemyAttackOn(i) =>
         /\ ~agents'[i].isDefending
         /\ ~agents[i].isDefending =>
              lastTurn'.damage \in {EnemyDamage(enemies[aliveEnemies[idx]], roll) :
                                      roll \in RandomRolls}
  /\ cbPc \in {"agentsDone", "enemy"} =>
       \A i \in 1..Len(agents) : agents'[i].isDefending => agents[i].isDefending

\* C34: in CombatSystem every enemy has isDefending = false whenever an
\* agent action is executed (the flag set in the enemy phase is reset at the
\* start of the next turn before agents act), so damage dealt to an enemy is
\* never halved; an agent that defends has at most one incoming enemy attack
\* halved in that turn.
C34_DefendingFlags == [](EnemiesOpen /\ HitInFull) /\ [][GuardSpentByAttack]_vars

\* An agent that chose defend this turn has been attacked by the first
\* enemy and the second enemy is about to act.
C34_Witness ==
  /\ cbPc = "enemy"
  /\ idx = 2
  /\ lastTurn.actorType = "enemy"
  /\ lastTurn.action = "attack"
  /\ \E i \in 1..Len(agents) :
       /\ agents[i].name = lastTurn.target
       /\ Field(actions[agents[i].name], "action") = JStr("defend")

\* An attack is being judged in a turn that follows an enemy's defend.
AttackAfterEnemyDefend ==
  /\ cbPc = "judging"
  /\ turn > 1
  /\ lastTurn.actorType = "enemy"
  /\ lastTurn.action = "defend"


\* C35: in every reachable state of a CombatSystem encounter every enemy
\* satisfies 0 <= hp <= maxHp, for every damage value the combat-action
\* judgement can return (including negative values).
C35_EnemyHpInRange ==
  \A e \in 1..Len(enemies) : 0 <= enemies[e].hp /\ enemies[e].hp <= enemies[e].maxHp

\* An attack has been judged and logged with a negative damage.
NegativeHit ==
  /\ lastTurn.actorType = "agent"
  /\ lastTurn.action \in {"attack", "special"}
  /\ lastTurn.damage < 0


(***************************************************************************)
(* CombatScene: runCombatWithAnimations                                    *)
(***************************************************************************)
\* Every step below runs the scene from one await (a streamed message, a
\* tween, a delay) to the next await at which the combatants differ.
\* The parties and enemies the loop is followed on: every living agent has
\* attack >= 1, a fallen agent may be in the party.
SceneRosters ==
  { [agents |-> <<Agent("A", 5, 80, 1, 3)>>,
     enemies |-> <<Enemy("E1", 3, 1)>>],
    [agents |-> <<Agent("A", 9, 80, 3, 3), Agent("B", 0, 80, 5, 3)>>,
     enemies |-> <<Enemy("E1", 2, 2), Enemy("E2", 4, 0)>>],
    [agents |-> <<Agent("A", 2, 80, 4, 3), Agent("B", 3, 80, 2, 3)>>,
     enemies |-> <<Enemy("E1", 6, 3)>>] }

\* startCombat has stored the doctrine and calls runCombatWithAnimations.
CombatSceneInit ==
  /\ GatewayIdle
  /\ CallsIdle
  /\ llmDown = FALSE
  /\ stubRandom \in BOOLEAN
  /\ combatsWon = 0
  /\ instance = 1
  /\ \E roster \in SceneRosters :
       /\ agents = roster.agents
       /\ enemies = roster.enemies
  /\ tasks = <<>>
  /\ timers = 0
  /\ callbackSet = TRUE
  /\ inputEnabled = FALSE
  /\ doctrine \in Doctrines
  /\ currentEvent = JNull
  /\ eventCount = 1
  /\ eventsCleared = 0
  /\ usedTemplates = {}
  /\ eventHistory = <<>>
  /\ gameOverShown = FALSE
  /\ promptedFor = 0
  /\ submits = 0
  /\ cbPc = "sceneLoop"
  /\ turn = 0
  /\ startedAlive = (SomeAlive(agents) /\ SomeAlive(enemies))
  /\ aliveAgents = <<>>
  /\ pending = {}
  /\ actions = <<>>
  /\ idx = 0
  /\ cur = [verb |-> "none"]
  /\ aliveEnemies = <<>>
  /\ agentTargets = <<>>
  /\ lastTurn = [actorType |-> "none"]
  /\ agentActionCount = 0
  /\ enemyActionCount = 0
  /\ cbResult = Pending

\* What the steps of the loop leave alone.
sceneFrame == <<gwVars, epVars, llmDown, stubRandom, instance, evVars, callVars,
                startedAlive, pending, actions, cur, agentTargets, cbResult>>

\* The agents' loop of executeTurnWithAnimation is left: the enemies alive
\* now are the ones that act; with none of them the turn is over.
EnemiesTurn(es) ==
  /\ aliveEnemies' = AliveIndices(es)
  /\ idx' = 1
  /\ cbPc' = IF Len(AliveIndices(es)) = 0 THEN "sceneLoop" ELSE "sceneEnemies"

\* while (agents.some(alive) && enemies.some(alive)): turnCount++, and
\* executeTurnWithAnimation takes the living agents.
SceneTurnStarts ==
  /\ cbPc = "sceneLoop"
  /\ SomeAlive(agents) /\ SomeAlive(enemies)
  /\ turn < MaxTurns
  /\ turn' = turn + 1
  /\ aliveAgents' = AliveIndices(agents)
  /\ idx' = 1
  /\ cbPc' = "sceneAgents"
  /\ UNCHANGED <<agents, enemies, aliveEnemies, lastTurn, agentActionCount,
                 enemyActionCount, combatsWon, sceneFrame>>

\* One round of the agents' loop: the agent attacks the first living enemy.
SceneAgentAttacks ==
  /\ cbPc = "sceneAgents"
  /\ LET agent == agents[aliveAgents[idx]]
         alive == AliveIndices(enemies)
     IN  IF Len(alive) = 0
         THEN /\ EnemiesTurn(enemies)
              /\ UNCHANGED <<enemies, lastTurn, agentActionCount>>
         ELSE \E roll \in Rolls :
                LET damage == AttackBaseDamage(agent, roll)
                    target == enemies[alive[1]]
                    es == [enemies EXCEPT ![alive[1]] = TakeDamage(target, damage)]
                IN  /\ enemies' = es
                    /\ lastTurn' = TurnEntry(agent.name, "attack", target.name,
                                             ActualDamage(target, damage), "agent")
                    /\ agentActionCount' = agentActionCount + 1
                    /\ IF ~SomeAlive(es) \/ idx = Len(aliveAgents)
                       THEN EnemiesTurn(es)
                       ELSE /\ idx' = idx + 1
                            /\ UNCHANGED <<cbPc, aliveEnemies>>
  /\ UNCHANGED <<agents, turn, aliveAgents, enemyActionCount, combatsWon, sceneFrame>>

\* One round of the enemies' loop: the enemy attacks a random living agent.
SceneEnemyAttacks ==
  /\ cbPc = "sceneEnemies"
  /\ LET enemy == enemies[aliveEnemies[idx]]
         alive == AliveIndices(agents)
     IN  IF Len(alive) = 0
         THEN /\ cbPc' = "sceneLoop"
              /\ UNCHANGED <<agents, idx, lastTurn, enemyActionCount>>
         ELSE \E pick \in Rolls, roll \in Rolls :
                LET t == alive[FloorRandom(pick, Len(alive)) + 1]
                    damage == EnemyDamage(enemy, roll)
                    as == [agents EXCEPT ![t] = TakeDamage(agents[t], damage)]
                IN  /\ agents' = as
                    /\ lastTurn' = TurnEntry(enemy.name, "attack", agents[t].name,
                                             ActualDamage(agents[t], damage), "enemy")
                    /\ enemyActionCount' = enemyActionCount + 1
                    /\ IF ~SomeAlive(as) \/ idx = Len(aliveEnemies)
                       THEN cbPc' = "sceneLoop" /\ UNCHANGED idx
                       ELSE idx' = idx + 1 /\ UNCHANGED cbPc
  /\ UNCHANGED <<enemies, turn, aliveAgents, aliveEnemies, agentActionCount,
                 combatsWon, sceneFrame>>

\* The loop is left: victory clears the event and returns to GamePlayScene,
\* defeat shows the game over screen.
SceneCombatEnds ==
  /\ cbPc = "sceneLoop"
  /\ ~(SomeAlive(agents) /\ SomeAlive(enemies))
  /\ IF SomeAlive(agents)
     THEN /\ cbPc' = "victory"
          /\ eventsCleared' = ClearEvent(GameStateNow, TRUE).eventsCleared
          /\ combatsWon' = ClearEvent(GameStateNow, TRUE).combatsWon
          /\ UNCHANGED gameOverShown
     ELSE /\ cbPc' = "gameOver"
          /\ gameOverShown' = TRUE
          /\ UNCHANGED <<eventsCleared, combatsWon>>
  /\ UNCHANGED <<gwVars, epVars, llmDown, stubRandom, instance, agents, enemies, turn,
                 startedAlive, aliveAgents, pending, actions, idx, cur, aliveEnemies,
                 agentTargets, lastTurn, agentActionCount, enemyActionCount, cbResult,
                 tasks, timers, callbackSet, inputEnabled, doctrine, currentEvent,
                 eventCount, usedTemplates, eventHistory, promptedFor, submits,
                 callVars>>

CombatSceneNext ==
  \/ SceneTurnStarts
  \/ SceneAgentAttacks
  \/ SceneEnemyAttacks
  \/ SceneCombatEnds

\* Every await of the loop is a streamed message, a tween or a delay, each
\* of which the Phaser clock completes: a step that can be taken is taken.
SpecCombatScene ==
  CombatSceneInit /\ [][CombatSceneNext]_vars /\ WF_vars(CombatSceneNext)

RECURSIVE HpFrom(_, _)
HpFrom(roster, k) ==
  IF k > Len(roster) THEN 0
  ELSE (IF IsAlive(roster[k]) THEN roster[k].hp ELSE 0) + HpFrom(roster, k + 1)

\* Total hp of the living members of a roster.
LivingHp(roster) == HpFrom(roster, 1)

\* A turn opens with an attack: the first agent of a turn finds an enemy.
TurnOpensWithAttack ==
  (cbPc = "sceneAgents" /\ idx = 1) => SomeAlive(enemies)

\* The scene leaves the loop for the screen that fits the survivors.
EndsForTheSurvivors ==
  /\ cbPc = "victory" => SomeAlive(agents) /\ ~SomeAlive(enemies)
  /\ cbPc = "gameOver" => ~SomeAlive(agents)

\* Every attack of an agent lowers the total hp of the living enemies and
\* no step raises it.
AttackLowersEnemyHp ==
  /\ LivingHp(enemies') <= LivingHp(enemies)
  /\ (cbPc = "sceneAgents" /\ SomeAlive(enemies)) =>
       LivingHp(enemies') < LivingHp(enemies)

CombatSceneOver == cbPc \in {"victory", "gameOver"}

\* C36: the combat loop run by CombatScene always terminates: with every
\* living agent having attack >= 1 and the enemies having finite hp, each
\* turn strictly reduces the total hp of living enemies (it opens with an
\* agent's attack, every such attack lowers the total and nothing raises
\* it), so after finitely many turns one side has no living member and the
\* scene proceeds to victory or game over.
C36_CombatSceneTerminates ==
  /\ [](TurnOpensWithAttack /\ EndsForTheSurvivors)
  /\ [][AttackLowersEnemyHp]_vars
  /\ <>CombatSceneOver

\* The loop was left after its third turn.
C36_Witness ==
  /\ CombatSceneOver
  /\ turn = MaxTurns


(***************************************************************************)
(* SpecSpecial: one runCombat call of an agent of odd attack                *)
(***************************************************************************)
\* One agent of attack 5 against one enemy that outlasts a special.
SpecialRoster ==
  [agents |-> <<Agent("A", 3, 80, 5, 3)>>,
   enemies |-> <<Enemy("E1", 20, 2)>>,
   stub |-> TRUE]

SpecialInit == CombatStart({SpecialRoster})

SpecSpecial == SpecialInit /\ [][CombatNext]_vars

\* hp is kept in half points: a whole number of points is an even number.
WholePoints(x) == x.hp % 2 = 0

\* C38: given integer starting stats, the hp of every agent and every enemy
\* is an integer in every reachable state of combat, for attack, special,
\* heal and enemy attacks alike.
C38_HpIsInteger ==
  /\ \A i \in 1..Len(agents) : WholePoints(agents[i])
  /\ \A e \in 1..Len(enemies) : WholePoints(enemies[e])

\* A special that was judged a success and logged with a positive damage
\* has left its target alive with a fraction of a point.
SpecialLeavesHalfPoint ==
  /\ lastTurn.actorType = "agent"
  /\ lastTurn.action = "special"
  /\ lastTurn.damage > 0
  /\ \E e \in 1..Len(enemies) :
       /\ enemies[e].name = lastTurn.target
       /\ enemies[e].hp < enemies[e].maxHp
       /\ ~WholePoints(enemies[e])


\* C39: with the hosted (groq) provider selected and no API key configured,
\* generate fails immediately, without issuing any network request and
\* without any retry or backoff wait.
C39_MissingKeyFailsAtOnce ==
  (provider = "groq" /\ ~apiKey /\ gwPc # "idle") =>
    /\ gwPc \notin {"fetch", "backoff"}
    /\ genResult = Rejected(MissingKeyError)
    /\ gwPc # "generated" => jsonResult = Rejected(MissingKeyError)
    /\ fetchLog = <<>>
    /\ inFlight = 0
    /\ waits = <<>>
    /\ attempt = 0

\* generateJSON has rejected for the missing key on a client that would
\* have retried.
C39_Witness ==
  /\ provider = "groq"
  /\ ~apiKey
  /\ maxRetries > 1
  /\ gwPc = "settled"
  /\ jsonResult = Rejected(MissingKeyError)
====
